---------------------------- MODULE Spec2Model ----------------------------
(***************************************************************************)
(* Holdings extraction of scripts/extract_all_funds.py.                    *)
(*                                                                         *)
(* Text is a sequence of one-character strings, so that the regular        *)
(* expressions, str.lower, str.strip, str.split and the substring tests of *)
(* the script are computed character by character.  Numbers are fixed      *)
(* point: an integer n stands for the float n / Unit.  Python indices are  *)
(* 0-based; sequences here are 1-based, so a row or column at Python       *)
(* index k is at position k + 1.                                           *)
(***************************************************************************)
EXTENDS Integers, Sequences, FiniteSets, TLC

(***************************************************************************)
(* Characters and strings                                                  *)
(***************************************************************************)
UpperChars == <<"A", "B", "C", "D", "E", "F", "G", "H", "I", "J", "K", "L", "M",
                "N", "O", "P", "Q", "R", "S", "T", "U", "V", "W", "X", "Y", "Z">>

LowerChars == <<"a", "b", "c", "d", "e", "f", "g", "h", "i", "j", "k", "l", "m",
                "n", "o", "p", "q", "r", "s", "t", "u", "v", "w", "x", "y", "z">>

UpperSet == {UpperChars[i] : i \in DOMAIN UpperChars}

LowerMap == [c \in UpperSet |-> LowerChars[CHOOSE i \in DOMAIN UpperChars : UpperChars[i] = c]]

DigitChars == <<"0", "1", "2", "3", "4", "5", "6", "7", "8", "9">>

DigitSet == {DigitChars[i] : i \in DOMAIN DigitChars}

\* the least and the greatest element of a set of positions; 0 for the empty set
MinOrZero(S) == IF S = {} THEN 0 ELSE CHOOSE i \in S : \A j \in S : i <= j

MaxOrZero(S) == IF S = {} THEN 0 ELSE CHOOSE i \in S : \A j \in S : j <= i

\* \s of re, and the separators of str.split() and str.strip()
IsSpace(c) == c \in {" ", "\t", "\n"}

\* str.lower()
Lower(s) == [i \in DOMAIN s |-> IF s[i] \in UpperSet THEN LowerMap[s[i]] ELSE s[i]]

\* sub in s
Contains(s, sub) ==
    \E i \in 0..(Len(s) - Len(sub)) : \A j \in DOMAIN sub : s[i + j] = sub[j]

\* str.strip()
StripTo(s, nonsp) ==
    IF nonsp = {} THEN <<>> ELSE SubSeq(s, MinOrZero(nonsp), MaxOrZero(nonsp))

Strip(s) == StripTo(s, {i \in DOMAIN s : ~IsSpace(s[i])})

\* s from position i on, each run of whitespace as one space; after_space
\* tells that position i - 1 is whitespace
RECURSIVE CollapseFrom(_, _, _)
CollapseFrom(s, i, after_space) ==
    IF i > Len(s) THEN <<>>
    ELSE IF IsSpace(s[i])
         THEN IF after_space THEN CollapseFrom(s, i + 1, TRUE)
              ELSE <<" ">> \o CollapseFrom(s, i + 1, TRUE)
         ELSE <<s[i]>> \o CollapseFrom(s, i + 1, FALSE)

\* ' '.join(s.split()): runs of whitespace become one space, none at the ends
Collapse(s) == CollapseFrom(Strip(s), 1, FALSE)

\* first position of the run of whitespace that ends at position k
WsRunStart(s, k) ==
    CHOOSE i \in 1..k : /\ \A j \in i..k : IsSpace(s[j])
                        /\ (i = 1 \/ ~IsSpace(s[i - 1]))

\* last position of the run of whitespace that starts at position k
\* (k - 1 when s[k] is no whitespace)
WsRunEnd(s, k) ==
    CHOOSE i \in (k - 1)..Len(s) : /\ \A j \in k..i : IsSpace(s[j])
                                   /\ (i = Len(s) \/ ~IsSpace(s[i + 1]))

(***************************************************************************)
(* The patterns of normalize_company_name that end in $ are matched from   *)
(* the end of the name: each operator below takes the position n up to     *)
(* which the name is still unmatched, matches one element of the pattern   *)
(* in front of it and gives the new position, or -1 when the element does  *)
(* not match (and for n = -1).  Every element of these patterns can be     *)
(* matched in one way only, so this finds the match re finds.              *)
(***************************************************************************)
\* \s+
BackSpaces1(s, n) == IF n >= 1 /\ IsSpace(s[n]) THEN WsRunStart(s, n) - 1 ELSE -1

\* \s*
BackSpaces0(s, n) == IF n >= 1 /\ IsSpace(s[n]) THEN WsRunStart(s, n) - 1 ELSE n

\* \.?
BackOptDot(s, n) == IF n >= 1 /\ s[n] = "." THEN n - 1 ELSE n

\* \*
BackStar(s, n) == IF n >= 1 /\ s[n] = "*" THEN n - 1 ELSE -1

\* [A-Z]
BackUpper(s, n) == IF n >= 1 /\ s[n] \in UpperSet THEN n - 1 ELSE -1

\* the literal word w (in lower case) under re.IGNORECASE
BackWordCI(s, n, w) ==
    IF n >= Len(w) /\ Lower(SubSeq(s, n - Len(w) + 1, n)) = w THEN n - Len(w) ELSE -1

(***************************************************************************)
(* normalize_company_name                                                  *)
(***************************************************************************)
\* the value None, which is no text
None == <<"None">>

s_Ltd_dot == <<" ", "L", "t", "d", ".">>
w_limited == <<"l", "i", "m", "i", "t", "e", "d">>
w_private == <<"p", "r", "i", "v", "a", "t", "e">>
w_pvt == <<"p", "v", "t">>
w_ltd == <<"l", "t", "d">>
w_ltd_dot == <<"l", "t", "d", ".">>

\* re.sub(pattern, repl, name) for a pattern that ends in $ and matched the
\* characters behind position m (m = -1: no match)
SubAtEnd(name, m, repl) == IF m < 0 THEN name ELSE SubSeq(name, 1, m) \o repl

\* re.sub(r'\s+[A-Z]\*\*$', '', name)
StripAnnotation(name) ==
    SubAtEnd(name,
             BackSpaces1(name, BackUpper(name, BackStar(name, BackStar(name, Len(name))))),
             <<>>)

\* a match of \( [^)]+ \) \s* with ( at position j and the first ) behind j at
\* position k (0: none) ends at the end of the whitespace behind k; 0: no match
ParenCloseEnd(s, j, k) == IF k >= j + 2 THEN WsRunEnd(s, k + 1) ELSE 0

ParenOpenEnd(s, j) ==
    IF j <= Len(s) /\ s[j] = "("
    THEN ParenCloseEnd(s, j, MinOrZero({k \in (j + 1)..Len(s) : s[k] = ")"}))
    ELSE 0

\* where a match of \s*\([^)]+\)\s* that starts at position i ends; 0 if the
\* pattern does not match at i
ParenMatchEnd(s, i) == ParenOpenEnd(s, WsRunEnd(s, i) + 1)

\* re.sub(r'\s*\([^)]+\)\s*', ' ', name): every match, left to right; e is
\* where the match at position i ends
RECURSIVE RemoveParensFrom(_, _)
RECURSIVE RemoveParensAt(_, _, _)
RemoveParensAt(s, i, e) ==
    IF e # 0
    THEN <<" ">> \o RemoveParensFrom(s, e + 1)
    ELSE <<s[i]>> \o RemoveParensFrom(s, i + 1)

RemoveParensFrom(s, i) ==
    IF i > Len(s) THEN <<>> ELSE RemoveParensAt(s, i, ParenMatchEnd(s, i))

RemoveParens(name) == RemoveParensFrom(name, 1)

\* re.sub(r'\s+Limited$', ' Ltd.', name, flags=re.IGNORECASE)
SubLimited(name) ==
    SubAtEnd(name, BackSpaces1(name, BackWordCI(name, Len(name), w_limited)), s_Ltd_dot)

\* re.sub(r'\s+Pvt\.?\s*Ltd\.?$', ' Ltd.', name, flags=re.IGNORECASE)
SubPvtLtd(name) ==
    SubAtEnd(name,
             BackSpaces1(name,
               BackWordCI(name,
                 BackOptDot(name,
                   BackSpaces0(name,
                     BackWordCI(name, BackOptDot(name, Len(name)), w_ltd))),
                 w_pvt)),
             s_Ltd_dot)

\* re.sub(r'\s+Private\s+Limited$', ' Ltd.', name, flags=re.IGNORECASE)
SubPrivateLimited(name) ==
    SubAtEnd(name,
             BackSpaces1(name,
               BackWordCI(name,
                 BackSpaces1(name, BackWordCI(name, Len(name), w_limited)),
                 w_private)),
             s_Ltd_dot)

\* SubLtd without its rule: a trailing `Ltd` is left as it is
SubLtd_none(name) == name

\* re.sub(r'\s+Ltd$', ' Ltd.', name, flags=re.IGNORECASE)
SubLtd(name) ==
    SubAtEnd(name, BackSpaces1(name, BackWordCI(name, Len(name), w_ltd)), s_Ltd_dot)

\* re.sub(r'\s+Ltd\.$', ' Ltd.', name, flags=re.IGNORECASE)
SubLtdDot(name) ==
    SubAtEnd(name, BackSpaces1(name, BackWordCI(name, Len(name), w_ltd_dot)), s_Ltd_dot)

\* the loop over `replacements`, in the order of the list
StandardizeSuffix(name) ==
    SubLtdDot(SubLtd(SubPrivateLimited(SubPvtLtd(SubLimited(name)))))

normalize_company_name(name) ==
    IF name = <<>> \/ name = None
    THEN None
    ELSE Collapse(StandardizeSuffix(RemoveParens(StripAnnotation(Collapse(name)))))

(***************************************************************************)
(* Numbers: the float x is the integer x * Unit                            *)
(***************************************************************************)
Unit == 10^5

\* round(v, 2).  A float that lies exactly half way between two values of 2
\* decimals is rounded to the even one; the cells of the model hold no such
\* value, because for them Python decides by the binary value of the float.
RoundTo(v, step) ==
    IF 2 * (v % step) < step THEN v - (v % step)
    ELSE IF 2 * (v % step) > step THEN v - (v % step) + step
    ELSE IF (v \div step) % 2 = 0 THEN v - (v % step)
    ELSE v - (v % step) + step

Round2(v) == RoundTo(v, Unit \div 100)

\* the decimal digits of the natural number n
RECURSIVE Digits(_)
Digits(n) == IF n < 10 THEN <<DigitChars[n + 1]>>
             ELSE Digits(n \div 10) \o <<DigitChars[(n % 10) + 1]>>

\* the digits of the fraction f / scale, without trailing zeros
RECURSIVE FracDigits(_, _)
FracDigits(f, scale) ==
    IF f = 0 \/ scale = 1 THEN <<>>
    ELSE <<DigitChars[(f \div (scale \div 10)) + 1]>>
         \o FracDigits(f % (scale \div 10), scale \div 10)

\* the digits behind the point: at least one
FracStr(frac) == IF frac = <<>> THEN <<"0">> ELSE frac

\* str(a) of a float a >= 0: repr, which writes values under 0.0001 with an
\* exponent
AbsStr(a) ==
    IF a > 0 /\ a < 10
    THEN Digits(a) \o <<"e", "-", "0", "5">>
    ELSE Digits(a \div Unit) \o <<".">> \o FracStr(FracDigits(a % Unit, Unit))

\* str(v) of a float
NumStr(v) == IF v < 0 THEN <<"-">> \o AbsStr(-v) ELSE AbsStr(v)

\* the value of a sequence of digits read as the digits after the point
RECURSIVE FracValue(_, _)
FracValue(ds, scale) ==
    IF ds = <<>> \/ scale = 1 THEN 0
    ELSE (CHOOSE d \in 0..9 : DigitChars[d + 1] = ds[1]) * (scale \div 10)
         + FracValue(Tail(ds), scale \div 10)

RECURSIVE IntValue(_)
IntValue(ds) ==
    IF ds = <<>> THEN 0
    ELSE IntValue(SubSeq(ds, 1, Len(ds) - 1)) * 10
         + (CHOOSE d \in 0..9 : DigitChars[d + 1] = ds[Len(ds)])

\* the result of float(): ok is FALSE when it raises ValueError
Failed == [ok |-> FALSE, v |-> 0]

Parsed(v) == [ok |-> TRUE, v |-> v]

\* digits with the point at position dot (Len(u) + 1: no point)
ParseDigits(u, dot) ==
    IF /\ \A i \in DOMAIN u : u[i] \in DigitSet \/ i = dot
       /\ Len(u) >= 1
       /\ ~(Len(u) = 1 /\ dot = 1)
    THEN Parsed(IntValue(SubSeq(u, 1, dot - 1)) * Unit
                + FracValue(SubSeq(u, dot + 1, Len(u)), Unit))
    ELSE Failed

ParseUnsigned(u) ==
    ParseDigits(u, IF \E i \in DOMAIN u : u[i] = "."
                   THEN MinOrZero({i \in DOMAIN u : u[i] = "."})
                   ELSE Len(u) + 1)

Negated(val) == [ok |-> val.ok, v |-> -val.v]

ParseSigned(t) ==
    IF t # <<>> /\ t[1] = "-" THEN Negated(ParseUnsigned(Tail(t)))
    ELSE IF t # <<>> /\ t[1] = "+" THEN ParseUnsigned(Tail(t))
    ELSE ParseUnsigned(t)

\* float(s) of a text.  Read are an optional sign, digits and at most one
\* point between whitespace; the texts of the model hold no exponent, inf,
\* nan or underscore.
ParseFloat(s) == ParseSigned(Strip(s))

(***************************************************************************)
(* The cell grid: a DataFrame is a sequence of rows, a row a sequence of   *)
(* cells, a cell empty (NaN), a text or a float                            *)
(***************************************************************************)
Empty == [t |-> "Empty", s |-> <<>>, v |-> 0]
Text(s) == [t |-> "Text", s |-> s, v |-> 0]
Number(v) == [t |-> "Number", s |-> <<>>, v |-> v]

\* pd.notna(cell)
notna(cell) == cell.t # "Empty"

\* str(cell)
CellStr(cell) == IF cell.t = "Text" THEN cell.s ELSE NumStr(cell.v)

\* ' '.join(parts)
RECURSIVE JoinSpace(_)
JoinSpace(parts) ==
    IF parts = <<>> THEN <<>>
    ELSE IF Len(parts) = 1 THEN parts[1]
    ELSE parts[1] \o <<" ">> \o JoinSpace(Tail(parts))

CellStrs(cells) == [i \in DOMAIN cells |-> CellStr(cells[i])]

\* ' '.join([str(cell) for cell in row if pd.notna(cell)]).lower()
RowStr(row) == Lower(JoinSpace(CellStrs(SelectSeq(row, notna))))

kw_name_of_the_instrument == <<"n", "a", "m", "e", " ", "o", "f", " ", "t", "h", "e", " ", "i", "n", "s", "t", "r", "u", "m", "e", "n", "t">>
kw_instrument == <<"i", "n", "s", "t", "r", "u", "m", "e", "n", "t">>
kw_pct_to_net == <<"%", " ", "t", "o", " ", "n", "e", "t">>
kw_pct_to_nav == <<"%", " ", "t", "o", " ", "n", "a", "v">>
kw_pct_of_nav == <<"%", " ", "o", "f", " ", "n", "a", "v">>
kw_equity_related == <<"e", "q", "u", "i", "t", "y", " ", "&", " ", "e", "q", "u", "i", "t", "y", " ", "r", "e", "l", "a", "t", "e", "d">>
kw_equity == <<"e", "q", "u", "i", "t", "y">>
kw_debt == <<"d", "e", "b", "t">>
kw_total == <<"t", "o", "t", "a", "l">>
kw_net_assets == <<"n", "e", "t", " ", "a", "s", "s", "e", "t", "s">>
kw_grand_total == <<"g", "r", "a", "n", "d", " ", "t", "o", "t", "a", "l">>

(***************************************************************************)
(* find_holdings_in_dataframe: header row, columns, percentage format      *)
(***************************************************************************)
\* has_instrument and has_percent
HasHeaderSignals(row_str) ==
    /\ \/ Contains(row_str, kw_name_of_the_instrument)
       \/ Contains(row_str, kw_instrument)
    /\ \/ Contains(row_str, kw_pct_to_net)
       \/ Contains(row_str, kw_pct_to_nav)
       \/ Contains(row_str, kw_pct_of_nav)

IsHeaderRow(row) == HasHeaderSignals(RowStr(row))

\* FindHeaderRow without the break: the last row with both signals
FindHeaderRow_last(df) == MaxOrZero({i \in DOMAIN df : IsHeaderRow(df[i])})

\* header_row_idx: the first row with both signals; 0 is None
FindHeaderRow(df) == MinOrZero({i \in DOMAIN df : IsHeaderRow(df[i])})

\* str(cell).lower().strip() of a header cell
HeaderCellStr(cell) == Strip(Lower(CellStr(cell)))

IsCompanyHeaderStr(cell_str) == Contains(cell_str, kw_name_of_the_instrument)

\* the elif: only a cell that is no company header
IsPercentHeaderStr(cell_str) ==
    /\ ~Contains(cell_str, kw_name_of_the_instrument)
    /\ \/ Contains(cell_str, kw_pct_to_net)
       \/ Contains(cell_str, kw_pct_to_nav)

\* company_col_idx: the last cell of the header row that names the company
\* column; 0 is None
FindCompanyCol(header_row) ==
    MaxOrZero({i \in DOMAIN header_row :
                 notna(header_row[i]) /\ IsCompanyHeaderStr(HeaderCellStr(header_row[i]))})

\* percent_col_idx: the last cell that names the percent column; 0 is None
FindPercentCol(header_row) ==
    MaxOrZero({i \in DOMAIN header_row :
                 notna(header_row[i]) /\ IsPercentHeaderStr(HeaderCellStr(header_row[i]))})

\* row.iloc[col] if col < len(row) else None
CellAt(row, col) == IF col <= Len(row) THEN row[col] ELSE Empty

\* the rows sampled are range(header_row_idx + 1, min(header_row_idx + 30, len(df)))
SAMPLE_WINDOW == 30

MAX_SAMPLES == 10

\* float(percent) inside try/except
CellFloat(cell) == IF cell.t = "Number" THEN Parsed(cell.v) ELSE ParseFloat(cell.s)

\* sample_values with the float val of a cell that is not NaN
WithSample(sample_values, val) ==
    IF val.ok /\ val.v > 0 THEN Append(sample_values, val.v) ELSE sample_values

\* sample_values with the cell `percent` of one row
WithCell(sample_values, percent) ==
    IF notna(percent) THEN WithSample(sample_values, CellFloat(percent)) ELSE sample_values

\* sample_values after the rows from..to, with the break at MAX_SAMPLES values
RECURSIVE CollectSamples(_, _, _, _, _)
CollectSamples(df, percent_col, from, to, sample_values) ==
    IF from > to \/ Len(sample_values) >= MAX_SAMPLES THEN sample_values
    ELSE CollectSamples(df, percent_col, from + 1, to,
                        WithCell(sample_values, CellAt(df[from], percent_col)))

\* min(a, b)
Min(a, b) == IF a < b THEN a ELSE b

\* Python rows header + 1 .. min(header + 30, len(df)) - 1, 0-based, are the
\* positions header + 1 .. min(header + 29, len(df)) here
SampleValues(df, header, percent_col) ==
    CollectSamples(df, percent_col, header + 1,
                   Min(header + SAMPLE_WINDOW - 1, Len(df)), <<>>)

\* NeedsConversion without `if sample_values else False`: all() of no sample
NeedsConversion_vacuous(sample_values) ==
    \A i \in DOMAIN sample_values : sample_values[i] < Unit

\* needs_conversion = all(v < 1 for v in sample_values) if sample_values else False
NeedsConversion(sample_values) ==
    /\ sample_values # <<>>
    /\ \A i \in DOMAIN sample_values : sample_values[i] < Unit

(***************************************************************************)
(* find_holdings_in_dataframe: one row of the extraction loop              *)
(***************************************************************************)
skip_words == <<
        <<"e", "q", "u", "i", "t", "y">>,
        <<"l", "i", "s", "t", "e", "d">>,
        <<"a", "w", "a", "i", "t", "i", "n", "g">>,
        <<"u", "n", "l", "i", "s", "t", "e", "d">>,
        <<"t", "o", "t", "a", "l">>,
        <<"f", "u", "n", "d">>,
        <<"b", "e", "n", "c", "h", "m", "a", "r", "k">>,
        <<"i", "n", "d", "e", "x">>,
        <<"p", "l", "a", "n">>,
        <<"r", "e", "g", "u", "l", "a", "r">>,
        <<"d", "i", "r", "e", "c", "t">>,
        <<"g", "r", "o", "w", "t", "h">>,
        <<"o", "t", "h", "e", "r", "s">>,
        <<"c", "a", "s", "h">>,
        <<"d", "e", "b", "t">>,
        <<"p", "o", "r", "t", "f", "o", "l", "i", "o">>,
        <<"g", "r", "a", "n", "d">> >>

MIN_COMPANY_LEN == 3

\* 'equity & equity related' in row_str or 'equity' in row_str
IsEquityRow(row_str) ==
    \/ Contains(row_str, kw_equity_related)
    \/ Contains(row_str, kw_equity)

\* IsEndRow without `'total' in row_str`: any of the keywords ends the scan
\* once there is a holding
IsEndRow_keyword(row_str, equity_section, holdings) ==
    /\ equity_section
    /\ \/ Contains(row_str, kw_debt)
       \/ Contains(row_str, kw_total)
       \/ Contains(row_str, kw_net_assets)
       \/ Contains(row_str, kw_grand_total)
    /\ Len(holdings) > 0

\* IsEndRow without `len(holdings) > 0`: the first 'total' row ends the scan
IsEndRow_any(row_str, equity_section, holdings) ==
    /\ equity_section
    /\ \/ Contains(row_str, kw_debt)
       \/ Contains(row_str, kw_total)
       \/ Contains(row_str, kw_net_assets)
       \/ Contains(row_str, kw_grand_total)
    /\ Contains(row_str, kw_total)

\* the break: a keyword row that holds 'total', met with a holding in the list
IsEndRow(row_str, equity_section, holdings) ==
    /\ equity_section
    /\ \/ Contains(row_str, kw_debt)
       \/ Contains(row_str, kw_total)
       \/ Contains(row_str, kw_net_assets)
       \/ Contains(row_str, kw_grand_total)
    /\ Contains(row_str, kw_total)
    /\ Len(holdings) > 0

\* HasSkipWord with `==` in place of `in`: only a company that is a skip word
HasSkipWord_whole(company_lower) ==
    \E i \in DOMAIN skip_words : company_lower = skip_words[i]

\* any(s in company_lower for s in skip_words)
HasSkipWord(company_lower) ==
    \E i \in DOMAIN skip_words : Contains(company_lower, skip_words[i])

\* percent.replace('%', '')
RemovePercentSign(s) == SelectSeq(s, LAMBDA c : c # "%")

\* pct_val = pct_val * 100 under needs_conversion
Scaled(val, needs_conversion) ==
    [ok |-> val.ok, v |-> IF needs_conversion THEN val.v * 100 ELSE val.v]

\* pct_val of the try block: the cell as a float, times 100 when the sheet
\* needs conversion; ok is FALSE at the ValueError or TypeError
ParsePercent(percent, needs_conversion) ==
    Scaled(IF percent.t = "Text"
           THEN ParseFloat(Strip(RemovePercentSign(percent.s)))
           ELSE Parsed(percent.v),
           needs_conversion)

PCT_LOW == Unit \div 100

PCT_HIGH == 50 * Unit

\* InRange with the two limits let in: 0.01 <= pct_val <= 50
InRange_closed(pct_val) == PCT_LOW <= pct_val /\ pct_val <= PCT_HIGH

\* 0.01 < pct_val < 50
InRange(pct_val) == PCT_LOW < pct_val /\ pct_val < PCT_HIGH

\* A row as a candidate holding: ok is FALSE when the loop body leaves the
\* row at one of its `continue` statements before the duplicate check
NoCandidate == [ok |-> FALSE, company |-> <<>>, pct_val |-> 0]

\* NamedCandidate without `if not normalized_name: continue`
NamedCandidate_any(normalized_name, pct_val) ==
    [ok |-> TRUE, company |-> normalized_name, pct_val |-> pct_val]

\* lines 218-222: the normalized name, if there is one
NamedCandidate(normalized_name, pct_val) ==
    IF normalized_name = None \/ normalized_name = <<>>
    THEN NoCandidate
    ELSE [ok |-> TRUE, company |-> normalized_name, pct_val |-> pct_val]

\* lines 191-216: the stripped company text and the parsed percentage
TextCandidate(company, pct) ==
    IF \/ Len(company) < MIN_COMPANY_LEN
       \/ HasSkipWord(Lower(company))
       \/ ~pct.ok
       \/ ~InRange(pct.v)
    THEN NoCandidate
    ELSE NamedCandidate(normalize_company_name(company), pct.v)

\* lines 187-188: both cells are there
CellCandidate(company_cell, percent, needs_conversion) ==
    IF ~notna(company_cell) \/ ~notna(percent)
    THEN NoCandidate
    ELSE TextCandidate(Strip(CellStr(company_cell)),
                       ParsePercent(percent, needs_conversion))

\* lines 184-222
RowCandidate(row, company_col, percent_col, needs_conversion) ==
    CellCandidate(CellAt(row, company_col), CellAt(row, percent_col), needs_conversion)

NewHolding(normalized_name, pct_val) ==
    [company |-> normalized_name, percentOfNAV |-> Round2(pct_val),
     shares |-> None, value |-> None]

\* MergeAt that takes the holding at position m out of the list and puts the
\* merged holding at the end
MergeAt_reappend(holdings, m, pct_val) ==
    Append(SubSeq(holdings, 1, m - 1) \o SubSeq(holdings, m + 1, Len(holdings)),
           [holdings[m] EXCEPT !.percentOfNAV = Round2(@ + pct_val)])

\* MergeAt that keeps the holding as it is when the sum leaves the range
MergeAt_checked(holdings, m, pct_val) ==
    IF InRange(holdings[m].percentOfNAV + pct_val)
    THEN [holdings EXCEPT ![m].percentOfNAV = Round2(@ + pct_val)]
    ELSE holdings

\* holding['percentOfNAV'] = round(holding['percentOfNAV'] + pct_val, 2) for
\* the holding at position m
MergeAt(holdings, m, pct_val) ==
    [holdings EXCEPT ![m].percentOfNAV = Round2(@ + pct_val)]

\* the merge: pct_val is added to the first holding of that name
MergeInto(holdings, normalized_lower, pct_val) ==
    MergeAt(holdings,
            MinOrZero({i \in DOMAIN holdings : Lower(holdings[i].company) = normalized_lower}),
            pct_val)

\* WithCandidate that passes over a row whose name is in seen_companies
\* without adding its value
WithCandidate_dropped(st, normalized_lower, cand) ==
    IF normalized_lower \in st.seen_companies
    THEN st
    ELSE [st EXCEPT !.seen_companies = @ \cup {normalized_lower},
                    !.holdings = Append(@, NewHolding(cand.company, cand.pct_val))]

\* WithCandidate without .lower(): the names are compared as they are written
WithCandidate_exact(st, normalized_lower, cand) ==
    IF cand.company \in st.seen_companies
    THEN [st EXCEPT !.holdings = MergeInto(@, normalized_lower, cand.pct_val)]
    ELSE [st EXCEPT !.seen_companies = @ \cup {cand.company},
                    !.holdings = Append(@, NewHolding(cand.company, cand.pct_val))]

\* lines 224-241 for a candidate that is ok
WithCandidate(st, normalized_lower, cand) ==
    IF normalized_lower \in st.seen_companies
    THEN [st EXCEPT !.holdings = MergeInto(@, normalized_lower, cand.pct_val)]
    ELSE [st EXCEPT !.seen_companies = @ \cup {normalized_lower},
                    !.holdings = Append(@, NewHolding(cand.company, cand.pct_val))]

\* StepWith that leaves the loop at a row of the equity section that gives
\* no candidate
StepWith_abort(st, row_str, cand) ==
    IF IsEquityRow(row_str)
    THEN [st EXCEPT !.equity_section = TRUE]
    ELSE IF IsEndRow(row_str, st.equity_section, st.holdings)
    THEN [st EXCEPT !.stop = TRUE]
    ELSE IF ~st.equity_section
    THEN st
    ELSE IF ~cand.ok
    THEN [st EXCEPT !.stop = TRUE]
    ELSE WithCandidate(st, Lower(cand.company), cand)

\* StepWith without `if not equity_section: continue`: rows in front of the
\* equity section are extracted too
StepWith_anywhere(st, row_str, cand) ==
    IF IsEquityRow(row_str)
    THEN [st EXCEPT !.equity_section = TRUE]
    ELSE IF IsEndRow(row_str, st.equity_section, st.holdings)
    THEN [st EXCEPT !.stop = TRUE]
    ELSE IF ~cand.ok
    THEN st
    ELSE WithCandidate(st, Lower(cand.company), cand)

\* the loop body for a row with the text row_str and the candidate cand
StepWith(st, row_str, cand) ==
    IF IsEquityRow(row_str)
    THEN [st EXCEPT !.equity_section = TRUE]
    ELSE IF IsEndRow(row_str, st.equity_section, st.holdings)
    THEN [st EXCEPT !.stop = TRUE]
    ELSE IF ~st.equity_section \/ ~cand.ok
    THEN st
    ELSE WithCandidate(st, Lower(cand.company), cand)

\* One pass of the loop body over `row`.  st holds the loop's variables
\* equity_section, holdings and seen_companies, and stop after the break.
ScanStep(st, row, company_col, percent_col, needs_conversion) ==
    StepWith(st, RowStr(row), RowCandidate(row, company_col, percent_col, needs_conversion))

MIN_HOLDINGS == 5

\* Accepted with the threshold one lower: four holdings are enough
Accepted_four(holdings) == Len(holdings) >= MIN_HOLDINGS - 1

\* return holdings if len(holdings) >= 5 else None, and the caller's
\* `if sheet_holdings and len(sheet_holdings) >= 5`
Accepted(holdings) == Len(holdings) >= MIN_HOLDINGS

(***************************************************************************)
(* process_excel_file: the ranking                                         *)
(***************************************************************************)
\* x put behind position k of sorted
InsertAt(sorted, k, x) ==
    SubSeq(sorted, 1, k) \o <<x>> \o SubSeq(sorted, k + 1, Len(sorted))

\* InsertDesc as an ascending sort that is reversed: x put in front of the
\* holdings of the same percentOfNAV
InsertDesc_reversed(sorted, x) ==
    InsertAt(sorted,
             MaxOrZero({i \in DOMAIN sorted : sorted[i].percentOfNAV > x.percentOfNAV}),
             x)

\* InsertDesc without reverse=True: x put behind the last holding that is
\* not larger
InsertDesc_ascending(sorted, x) ==
    InsertAt(sorted,
             MaxOrZero({i \in DOMAIN sorted : sorted[i].percentOfNAV <= x.percentOfNAV}),
             x)

\* x put behind the last holding of sorted whose percentOfNAV is not smaller
InsertDesc(sorted, x) ==
    InsertAt(sorted,
             MaxOrZero({i \in DOMAIN sorted : sorted[i].percentOfNAV >= x.percentOfNAV}),
             x)

\* holdings.sort(key=lambda x: x["percentOfNAV"], reverse=True): stable
RECURSIVE SortDesc(_)
SortDesc(holdings) ==
    IF holdings = <<>> THEN <<>>
    ELSE InsertDesc(SortDesc(SubSeq(holdings, 1, Len(holdings) - 1)),
                    holdings[Len(holdings)])

(***************************************************************************)
(* find_holdings_in_dataframe as a whole                                   *)
(***************************************************************************)
\* the loop's variables before the first row
ScanStart == [equity_section |-> FALSE, holdings |-> <<>>,
              seen_companies |-> {}, stop |-> FALSE]

\* the loop over the rows from..len(df), left at the break
RECURSIVE ScanRows(_, _, _, _, _, _)
ScanRows(df, from, st, company_col, percent_col, needs_conversion) ==
    IF from > Len(df) \/ st.stop THEN st
    ELSE ScanRows(df, from + 1,
                  ScanStep(st, df[from], company_col, percent_col, needs_conversion),
                  company_col, percent_col, needs_conversion)

\* lines 134-247, with the columns found
FindWithColumns(df, header, company_col, percent_col) ==
    IF company_col = 0 \/ percent_col = 0 THEN <<>>
    ELSE ScanRows(df, header + 1, ScanStart, company_col, percent_col,
                  NeedsConversion(SampleValues(df, header, percent_col))).holdings

\* lines 115-247, with the header row found
FindWithHeader(df, header) ==
    IF header = 0 THEN <<>>
    ELSE FindWithColumns(df, header, FindCompanyCol(df[header]), FindPercentCol(df[header]))

\* The holdings list at the return of find_holdings_in_dataframe(df); the
\* function returns it when Accepted, and None otherwise (also at the two
\* early `return None`, where the list is still empty)
FindHoldings(df) == FindWithHeader(df, FindHeaderRow(df))

(***************************************************************************)
(* extract_month_year_from_filename                                        *)
(***************************************************************************)
month_map == <<
    <<<<"j", "a", "n">>, "January">>,
    <<<<"j", "a", "n", "u", "a", "r", "y">>, "January">>,
    <<<<"f", "e", "b">>, "February">>,
    <<<<"f", "e", "b", "r", "u", "a", "r", "y">>, "February">>,
    <<<<"m", "a", "r">>, "March">>,
    <<<<"m", "a", "r", "c", "h">>, "March">>,
    <<<<"a", "p", "r">>, "April">>,
    <<<<"a", "p", "r", "i", "l">>, "April">>,
    <<<<"m", "a", "y">>, "May">>,
    <<<<"j", "u", "n">>, "June">>,
    <<<<"j", "u", "n", "e">>, "June">>,
    <<<<"j", "u", "l">>, "July">>,
    <<<<"j", "u", "l", "y">>, "July">>,
    <<<<"a", "u", "g">>, "August">>,
    <<<<"a", "u", "g", "u", "s", "t">>, "August">>,
    <<<<"s", "e", "p">>, "September">>,
    <<<<"s", "e", "p", "t">>, "September">>,
    <<<<"s", "e", "p", "t", "e", "m", "b", "e", "r">>, "September">>,
    <<<<"o", "c", "t">>, "October">>,
    <<<<"o", "c", "t", "o", "b", "e", "r">>, "October">>,
    <<<<"n", "o", "v">>, "November">>,
    <<<<"n", "o", "v", "e", "m", "b", "e", "r">>, "November">>,
    <<<<"d", "e", "c">>, "December">>,
    <<<<"d", "e", "c", "e", "m", "b", "e", "r">>, "December">>
    >>

\* the month of the first entry of month_map whose key is in the name
MonthAt(m) == IF m = 0 THEN "None" ELSE month_map[m][2]

MonthOf(fn) == MonthAt(MinOrZero({i \in DOMAIN month_map : Contains(fn, month_map[i][1])}))

\* int(re.search(r'20\d{2}', filename).group()): the first match; 0 is no match
YearAt(fn, y) == IF y = 0 THEN 0 ELSE IntValue(SubSeq(fn, y, y + 3))

YearOf(fn) ==
    YearAt(fn, MinOrZero({i \in 1..(Len(fn) - 3) : /\ fn[i] = "2"
                                                   /\ fn[i + 1] = "0"
                                                   /\ fn[i + 2] \in DigitSet
                                                   /\ fn[i + 3] \in DigitSet}))

\* a month is returned only together with a year
MonthYear(m, y) == IF m = "None" \/ y = 0 THEN <<"None", 0>> ELSE <<m, y>>

\* (month, year) of the file name; <<"None", 0>> is (None, None)
extract_month_year_from_filename(filename) ==
    MonthYear(MonthOf(Lower(filename)), YearOf(Lower(filename)))

(***************************************************************************)
(* Inputs: file names, rows, sheets and workbooks                          *)
(***************************************************************************)
f_jan2025 == <<"M", "i", "r", "a", "e", "-", "J", "a", "n", "2", "0", "2", "5", ".", "x", "l", "s", "x">>
f_march == <<"c", "a", "n", "a", "r", "a", "-", "m", "a", "r", "c", "h", ".", "x", "l", "s", "x">>
f_nomonth == <<"h", "o", "l", "d", "i", "n", "g", "s", "2", "0", "2", "4", ".", "x", "l", "s", "x">>

FileNames == {f_jan2025, f_march, f_nomonth}

t_tata == <<"T", "a", "t", "a", " ", "M", "o", "t", "o", "r", "s", " ", "L", "t", "d">>
t_TATA == <<"T", "A", "T", "A", " ", "M", "O", "T", "O", "R", "S", " ", "L", "I", "M", "I", "T", "E", "D">>
t_tata_dot == <<"T", "a", "t", "a", " ", "M", "o", "t", "o", "r", "s", " ", "L", "t", "d", ".">>
t_tata_lc == <<"t", "a", "t", "a", " ", "m", "o", "t", "o", "r", "s", " ", "l", "t", "d">>
t_abc == <<"A", "B", "C", " ", "L", "t", "d">>
t_infosys == <<"I", "n", "f", "o", "s", "y", "s", " ", "L", "i", "m", "i", "t", "e", "d">>
t_hdfc == <<"H", "D", "F", "C", " ", "B", "a", "n", "k", " ", "(", "D", "e", "m", "a", "t", ")", " ", "L", "t", "d", ".">>
t_xyz == <<"X", "Y", "Z", " ", "P", "v", "t", " ", "L", "t", "d">>
t_wipro == <<"W", "i", "p", "r", "o">>
t_itc == <<"I", "T", "C", " ", "A", "*", "*">>
t_cipla == <<"C", "i", "p", "l", "a">>
t_lupin == <<"L", "u", "p", "i", "n", " ", "L", "t", "d">>
t_titan == <<"T", "i", "t", "a", "n">>
t_total == <<"T", "o", "t", "a", "l">>
t_banner == <<"E", "q", "u", "i", "t", "y", " ", "&", " ", "E", "q", "u", "i", "t", "y", " ", "R", "e", "l", "a", "t", "e", "d">>
t_h_company == <<"N", "a", "m", "e", " ", "o", "f", " ", "t", "h", "e", " ", "I", "n", "s", "t", "r", "u", "m", "e", "n", "t">>
t_h_industry == <<"I", "n", "d", "u", "s", "t", "r", "y">>
t_h_percent == <<"%", " ", "t", "o", " ", "N", "e", "t", " ", "A", "s", "s", "e", "t", "s">>
t_h_instrument == <<"I", "n", "s", "t", "r", "u", "m", "e", "n", "t">>
t_h_of_nav == <<"%", " ", "o", "f", " ", "N", "A", "V">>
t_H_COMPANY == <<"N", "A", "M", "E", " ", "O", "F", " ", "T", "H", "E", " ", "I", "N", "S", "T", "R", "U", "M", "E", "N", "T">>
t_H_TO_NAV == <<"%", " ", "T", "O", " ", "N", "A", "V">>
t_total_equity == <<"T", "o", "t", "a", "l", " ", "E", "q", "u", "i", "t", "y">>
t_reliance == <<"R", "e", "l", "i", "a", "n", "c", "e", " ", "I", "n", "d", "u", "s", "t", "r", "i", "e", "s", " ", "L", "t", "d">>
t_icici == <<"I", "C", "I", "C", "I", " ", "B", "a", "n", "k", " ", "L", "i", "m", "i", "t", "e", "d">>
t_scheme == <<"S", "c", "h", "e", "m", "e", " ", "P", "o", "r", "t", "f", "o", "l", "i", "o">>

\* the float with the decimal digits n and `places` digits after the point
Dec(n, places) == n * (Unit \div 10^places)

\* a data row: company, industry (empty), percentage
Data(company, pct) == <<Text(company), Empty, Number(pct)>>

HeaderRow == <<Text(t_h_company), Text(t_h_industry), Text(t_h_percent)>>

\* a header row whose cells the column search does not resolve
BareHeaderRow == <<Text(t_h_instrument), Empty, Text(t_h_of_nav)>>

BannerRow == <<Text(t_banner), Empty, Empty>>

TotalRow == <<Text(t_total), Empty, Number(Dec(2636, 2))>>

TitleRow == <<Text(t_scheme), Empty, Empty>>

\* One sheet with six companies, one of them in two rows, a tie in the
\* percentages, a total and a company below the total
Template == <<
    HeaderRow,
    BannerRow,
    Data(t_tata, Dec(200, 2)),
    Data(t_abc, Dec(644, 2)),
    Data(t_infosys, Dec(200, 2)),
    Data(t_hdfc, Dec(590, 2)),
    Data(t_TATA, Dec(150, 2)),
    Data(t_xyz, Dec(852, 2)),
    TotalRow,
    Data(t_wipro, Dec(50, 2)) >>

\* the rows of `rows` at the positions of `keep`, in their order
RECURSIVE Pick(_, _, _)
Pick(rows, keep, i) ==
    IF i > Len(rows) THEN <<>>
    ELSE IF i \in keep THEN <<rows[i]>> \o Pick(rows, keep, i + 1)
    ELSE Pick(rows, keep, i + 1)

\* every sheet made of rows of the template, in the template's order
TemplateSheets == {Pick(Template, keep, 1) : keep \in SUBSET DOMAIN Template}

\* rows at and around the limits of the range, in percentages and fractions,
\* with names that merge
RowMenu == {
    Data(t_tata, Dec(200, 2)),
    Data(t_TATA, Dec(150, 2)),
    Data(t_tata_dot, Dec(499, 1)),
    Data(t_tata, Dec(50, 0)),
    Data(t_tata_lc, Dec(55, 0)),
    Data(t_abc, Dec(11, 3)),
    Data(t_abc, Dec(1, 2)),
    Data(t_abc, Dec(5, 3)),
    Data(t_abc, Dec(527, 4)) }

MaxBody == 3

\* the sequences of at most n rows of the menu
RECURSIVE Bodies(_)
Bodies(n) ==
    IF n = 0 THEN {<<>>}
    ELSE Bodies(n - 1) \cup
         {Append(b, r) : b \in {c \in Bodies(n - 1) : Len(c) = n - 1}, r \in RowMenu}

\* header, banner and at most MaxBody rows of the menu in any order
MenuSheets == {<<HeaderRow, BannerRow>> \o b : b \in Bodies(MaxBody)}

Readable(rows) == [readable |-> TRUE, rows |-> rows]

\* a sheet at which pd.read_excel raises
Unreadable == [readable |-> FALSE, rows |-> <<>>]

FourHoldings == <<HeaderRow, BannerRow, Data(t_tata, Dec(200, 2)),
                  Data(t_abc, Dec(610, 2)), Data(t_infosys, Dec(200, 2)),
                  Data(t_hdfc, Dec(590, 2)), TotalRow>>

FiveHoldings == <<TitleRow, HeaderRow, BannerRow, Data(t_wipro, Dec(50, 2)),
                  Data(t_itc, Dec(310, 2)), Data(t_cipla, Dec(120, 2)),
                  Data(t_lupin, Dec(310, 2)), Data(t_titan, Dec(45, 1)), TotalRow>>

SixHoldings == <<HeaderRow, BannerRow, Data(t_xyz, Dec(852, 2)),
                 Data(t_tata, Dec(200, 2)), Data(t_abc, Dec(610, 2)),
                 Data(t_infosys, Dec(200, 2)), Data(t_hdfc, Dec(590, 2)),
                 Data(t_wipro, Dec(50, 2))>>

\* the sheets of the workbooks with several sheets
SheetMenu == {Unreadable, Readable(<<>>),
              Readable(<<BareHeaderRow, BannerRow, Data(t_tata, Dec(200, 2))>>),
              Readable(FourHoldings), Readable(FiveHoldings), Readable(SixHoldings)}

MaxSheets == 3

RECURSIVE SheetSeqs(_)
SheetSeqs(n) ==
    IF n = 0 THEN {<<>>}
    ELSE SheetSeqs(n - 1) \cup
         {Append(w, sh) : w \in {x \in SheetSeqs(n - 1) : Len(x) = n - 1}, sh \in SheetMenu}

\* a header row in capitals, with the percent column labelled `% TO NAV`
UpperHeaderRow == <<Text(t_H_COMPANY), Text(t_h_industry), Text(t_H_TO_NAV)>>

\* rows in front of and around the header: titles, headers that resolve,
\* a header that does not, a data row
HeadMenu == {TitleRow, HeaderRow, UpperHeaderRow, BareHeaderRow, Data(t_cipla, Dec(120, 2))}

MaxHead == 3

\* the sequences of at most n rows of HeadMenu
RECURSIVE Heads(_)
Heads(n) ==
    IF n = 0 THEN {<<>>}
    ELSE Heads(n - 1) \cup
         {Append(h, r) : h \in {g \in Heads(n - 1) : Len(g) = n - 1}, r \in HeadMenu}

\* at most MaxHead rows of HeadMenu, then a banner and two data rows
HeadSheets ==
    {h \o <<BannerRow, Data(t_wipro, Dec(50, 2)), Data(t_titan, Dec(45, 1))>> :
        h \in Heads(MaxHead)}

\* a row that holds both 'total' and 'equity'
TotalEquityRow == <<Text(t_total_equity), Empty, Number(Dec(2636, 2))>>

\* the rows that open and close the equity section, and a data row
SectionMenu == {BannerRow, TotalRow, TotalEquityRow, Data(t_cipla, Dec(120, 2))}

MaxSection == 4

\* the sequences of at most n rows of SectionMenu
RECURSIVE Sections(_)
Sections(n) ==
    IF n = 0 THEN {<<>>}
    ELSE Sections(n - 1) \cup
         {Append(b, r) : b \in {c \in Sections(n - 1) : Len(c) = n - 1}, r \in SectionMenu}

\* the header, then at most MaxSection rows of SectionMenu
SectionSheets == {<<HeaderRow>> \o b : b \in Sections(MaxSection)}

\* a row of five columns: the company in the second, the percentage in the fifth
Wide(company, pct) == <<Empty, company, Empty, Empty, pct>>

WideTitleRow == Wide(Text(t_scheme), Empty)

\* A sheet with the header at row index 7, the company column at index 1 and
\* the percent column at index 4, both counted from 0 (here: 8, 2 and 5)
ScenarioSheet == <<
    WideTitleRow, WideTitleRow, WideTitleRow, WideTitleRow,
    WideTitleRow, WideTitleRow, WideTitleRow,
    Wide(Text(t_h_company), Text(t_h_percent)),
    Wide(Text(t_banner), Empty),
    Wide(Text(t_reliance), Number(Dec(852, 2))),
    Wide(Text(t_icici), Number(Dec(610, 2))),
    Wide(Text(t_hdfc), Number(Dec(590, 2))),
    Wide(Text(t_cipla), Number(Dec(120, 2))),
    Wide(Text(t_titan), Number(Dec(45, 1))),
    Wide(Text(t_total), Number(Dec(2622, 2))) >>

t_pct_527 == <<"5", ".", "2", "7", "%">>
t_na == <<"n", "/", "a">>
t_ab == <<"A", "B">>
t_planet == <<"P", "L", "A", "N", "E", "T", " ", "L", "t", "d">>
t_paren_only == <<"(", "A", "B", "C", ")">>
t_debt == <<"D", "e", "b", "t", " ", "I", "n", "s", "t", "r", "u", "m", "e", "n", "t", "s">>
t_net_assets == <<"N", "e", "t", " ", "A", "s", "s", "e", "t", "s">>
t_equity_shares == <<"E", "q", "u", "i", "t", "y", " ", "S", "h", "a", "r", "e", "s">>

\* a data row whose percentage is a text cell
DataText(company, pct_text) == <<Text(company), Empty, Text(pct_text)>>

\* a row of the equity section whose percent cell is 0
FillerRow == Data(t_wipro, 0)

MaxFiller == 28

\* header, banner, k rows without a sample, then two rows with values below 1:
\* with 27 rows in between the first value is in the 29th row behind the
\* header and the second in the 30th
LongSheet(k) ==
    <<HeaderRow, BannerRow>> \o [i \in 1..k |-> FillerRow]
        \o <<Data(t_cipla, Dec(5, 1)), Data(t_titan, Dec(3, 1))>>

LongSheets == {LongSheet(k) : k \in (MaxFiller - 2)..MaxFiller}

\* MAX_SAMPLES rows with a value below 1, then a row with a value above 1
TenSamples ==
    <<HeaderRow, BannerRow>> \o [i \in 1..MAX_SAMPLES |-> Data(t_wipro, Dec(5, 3))]
        \o <<Data(t_titan, Dec(2, 0))>>

\* rows that the loop body leaves at one of its `continue` statements, rows
\* with the keywords of other sections, and rows around them
OddMenu == {
    Data(t_titan, Dec(3, 1)),
    DataText(t_cipla, t_pct_527),
    DataText(t_cipla, t_na),
    <<Empty, Empty, Number(Dec(120, 2))>>,
    <<Text(t_cipla), Empty, Empty>>,
    Data(t_ab, Dec(120, 2)),
    Data(t_planet, Dec(120, 2)),
    Data(t_paren_only, Dec(120, 2)),
    <<Text(t_debt), Empty, Empty>>,
    <<Text(t_net_assets), Empty, Number(Dec(100, 0))>>,
    <<Text(t_cipla), Text(t_equity_shares), Number(Dec(120, 2))>> }

\* holdings above and below a debt banner and a row of net assets, then the
\* total and a row behind it
DebtSheet == <<
    HeaderRow,
    BannerRow,
    Data(t_titan, Dec(45, 1)),
    <<Text(t_debt), Empty, Empty>>,
    DataText(t_cipla, t_pct_527),
    <<Text(t_net_assets), Empty, Number(Dec(100, 0))>>,
    Data(t_lupin, Dec(310, 2)),
    TotalRow,
    Data(t_wipro, Dec(50, 2)) >>

MaxOdd == 2

\* the sequences of at most n rows of OddMenu
RECURSIVE Odds(_)
Odds(n) ==
    IF n = 0 THEN {<<>>}
    ELSE Odds(n - 1) \cup
         {Append(b, r) : b \in {c \in Odds(n - 1) : Len(c) = n - 1}, r \in OddMenu}

\* header, banner and at most MaxOdd rows of OddMenu
OddSheets == {<<HeaderRow, BannerRow>> \o b : b \in Odds(MaxOdd)}

\* excel_file.sheet_names with the content of each sheet: one sheet of the
\* template, of the menu, of the section sheets, the scenario sheet, a sheet
\* of odd rows or a long sheet; a sheet
\* of HeadSheets followed by one with five holdings; or up to MaxSheets
\* sheets of SheetMenu
Workbooks ==
    {<<Readable(rows)>> :
        rows \in TemplateSheets \cup MenuSheets \cup SectionSheets \cup {ScenarioSheet}
                    \cup OddSheets \cup LongSheets \cup {TenSamples, DebtSheet}}
    \cup {<<Readable(rows), Readable(FiveHoldings)>> : rows \in HeadSheets}
    \cup (SheetSeqs(MaxSheets) \ {<<>>})

(***************************************************************************)
(* process_excel_file as a state machine                                   *)
(***************************************************************************)
VARIABLES
    filename,          \* filepath.name
    pc,                \* "start", "sheets", "scan", "return", "done"; "norm" in SpecNormalize
    month, year,       \* of extract_month_year_from_filename; "None", 0 before
    workbook,          \* the sheets of excel_file, in the order of sheet_names
    sheet_i,           \* position of sheet_name in the loop over sheet_names
    df,                \* the rows of the sheet being checked
    header_row_idx, company_col_idx, percent_col_idx, needs_conversion,
    idx,               \* the row the extraction loop is at
    equity_section, seen_companies,              \* of find_holdings_in_dataframe
    holdings,          \* the list find_holdings_in_dataframe fills, as it is at the return
    file_holdings,     \* `holdings` of process_excel_file: <<>> is None, <<h>> the list h
    result,            \* what process_excel_file returned: "None" while it runs
    snapshot,          \* the JSON file written: <<>> while there is none
    name, once, twice  \* SpecNormalize: a name, its normal form, and that normalized again

vars == <<filename, pc, month, year, workbook, sheet_i, df, header_row_idx,
          company_col_idx, percent_col_idx, needs_conversion, idx, equity_section,
          holdings, seen_companies, file_holdings, result, snapshot, name, once, twice>>

sheetVars == <<df, header_row_idx, company_col_idx, percent_col_idx, needs_conversion,
               idx, equity_section, holdings, seen_companies>>

normVars == <<name, once, twice>>

\* the values of the variables of a sheet while no sheet is being scanned
NoSheet ==
    /\ df = <<>>
    /\ header_row_idx = 0
    /\ company_col_idx = 0
    /\ percent_col_idx = 0
    /\ needs_conversion = FALSE
    /\ idx = 0
    /\ equity_section = FALSE
    /\ holdings = <<>>
    /\ seen_companies = {}

Init ==
    /\ filename \in FileNames
    /\ pc = "start"
    /\ month = "None"
    /\ year = 0
    /\ workbook = <<>>
    /\ sheet_i = 0
    /\ NoSheet
    /\ file_holdings = <<>>
    /\ result = "None"
    /\ snapshot = <<>>
    /\ name = <<>> /\ once = <<>> /\ twice = <<>>

\* `if not month or not year` is not taken
Resolved(my) == my[1] # "None" /\ my[2] # 0

\* MetadataUnresolved without `return False`: the message is printed and the
\* workbook is opened all the same
MetadataUnresolved_open ==
    /\ pc = "start"
    /\ ~Resolved(extract_month_year_from_filename(filename))
    /\ month' = extract_month_year_from_filename(filename)[1]
    /\ year' = extract_month_year_from_filename(filename)[2]
    /\ workbook' \in Workbooks
    /\ sheet_i' = 1
    /\ pc' = "sheets"
    /\ UNCHANGED <<filename, sheetVars, file_holdings, result, snapshot, normVars>>

\* lines 254-257: the month or the year is missing in the file name
MetadataUnresolved ==
    /\ pc = "start"
    /\ ~Resolved(extract_month_year_from_filename(filename))
    /\ month' = extract_month_year_from_filename(filename)[1]
    /\ year' = extract_month_year_from_filename(filename)[2]
    /\ pc' = "done"
    /\ result' = "False"
    /\ UNCHANGED <<filename, workbook, sheet_i, sheetVars, file_holdings, snapshot, normVars>>

\* lines 254-266: month and year found, pd.ExcelFile opens the workbook
OpenWorkbook ==
    /\ pc = "start"
    /\ Resolved(extract_month_year_from_filename(filename))
    /\ month' = extract_month_year_from_filename(filename)[1]
    /\ year' = extract_month_year_from_filename(filename)[2]
    /\ workbook' \in Workbooks
    /\ sheet_i' = 1
    /\ pc' = "sheets"
    /\ UNCHANGED <<filename, sheetVars, file_holdings, result, snapshot, normVars>>

\* lines 263, 318-322: pd.ExcelFile raises, the outer except returns False
OpenWorkbookRaises ==
    /\ pc = "start"
    /\ Resolved(extract_month_year_from_filename(filename))
    /\ month' = extract_month_year_from_filename(filename)[1]
    /\ year' = extract_month_year_from_filename(filename)[2]
    /\ pc' = "done"
    /\ result' = "False"
    /\ UNCHANGED <<filename, workbook, sheet_i, sheetVars, file_holdings, snapshot, normVars>>

\* NextSheet with `return False` in the place of `continue`: the run fails at
\* the first sheet without result
NextSheet_stop ==
    /\ sheet_i' = sheet_i
    /\ pc' = "done"
    /\ result' = "False"
    /\ UNCHANGED <<filename, month, year, workbook, file_holdings, snapshot, normVars>>

\* The sheet loop goes on after a sheet without result: to the next sheet, or
\* past the last one to `if not holdings: return False` (lines 288-290)
NextSheet ==
    /\ IF sheet_i < Len(workbook)
       THEN /\ sheet_i' = sheet_i + 1
            /\ pc' = "sheets"
            /\ result' = result
       ELSE /\ sheet_i' = sheet_i
            /\ pc' = "done"
            /\ result' = "False"
    /\ UNCHANGED <<filename, month, year, workbook, file_holdings, snapshot, normVars>>

\* lines 273, 284-286: pd.read_excel raises, the inner except goes on
ReadSheetRaises ==
    /\ pc = "sheets"
    /\ ~workbook[sheet_i].readable
    /\ NextSheet
    /\ UNCHANGED sheetVars

\* lines 273-276: the sheet has no row
SheetEmpty ==
    /\ pc = "sheets"
    /\ workbook[sheet_i].readable
    /\ workbook[sheet_i].rows = <<>>
    /\ df' = workbook[sheet_i].rows
    /\ NextSheet
    /\ UNCHANGED <<header_row_idx, company_col_idx, percent_col_idx, needs_conversion,
                   idx, equity_section, holdings, seen_companies>>

\* lines 101-117: no header row, find_holdings_in_dataframe returns None
HeaderNotFound ==
    /\ pc = "sheets"
    /\ workbook[sheet_i].readable
    /\ workbook[sheet_i].rows # <<>>
    /\ FindHeaderRow(workbook[sheet_i].rows) = 0
    /\ df' = workbook[sheet_i].rows
    /\ holdings' = <<>>
    /\ header_row_idx' = 0
    /\ NextSheet
    /\ UNCHANGED <<company_col_idx, percent_col_idx, needs_conversion, idx,
                   equity_section, seen_companies>>

\* company_col_idx is None or percent_col_idx is None
ColumnMissing(header_row) ==
    FindCompanyCol(header_row) = 0 \/ FindPercentCol(header_row) = 0

\* lines 101-136: a header row, but no company or no percent column
ColumnNotFoundAt(rows, header) ==
    /\ header # 0
    /\ ColumnMissing(rows[header])
    /\ df' = rows
    /\ holdings' = <<>>
    /\ header_row_idx' = header
    /\ company_col_idx' = FindCompanyCol(rows[header])
    /\ percent_col_idx' = FindPercentCol(rows[header])

ColumnNotFound ==
    /\ pc = "sheets"
    /\ workbook[sheet_i].readable
    /\ ColumnNotFoundAt(workbook[sheet_i].rows, FindHeaderRow(workbook[sheet_i].rows))
    /\ NextSheet
    /\ UNCHANGED <<needs_conversion, idx, equity_section, seen_companies>>

\* BeginScan without `holdings = []` and `seen_companies = set()`: the list
\* and the set of the sheet before are carried on
BeginScan_carry(rows, header, company_col, percent_col) ==
    /\ df' = rows
    /\ header_row_idx' = header
    /\ company_col_idx' = company_col
    /\ percent_col_idx' = percent_col
    /\ needs_conversion' = NeedsConversion(SampleValues(rows, header, percent_col))
    /\ idx' = header + 1
    /\ pc' = IF header + 1 > Len(rows) THEN "return" ELSE "scan"
    /\ equity_section' = FALSE
    /\ holdings' = holdings
    /\ seen_companies' = seen_companies

\* lines 138-163: the format is detected, the loop starts behind the header
BeginScan(rows, header, company_col, percent_col) ==
    /\ df' = rows
    /\ header_row_idx' = header
    /\ company_col_idx' = company_col
    /\ percent_col_idx' = percent_col
    /\ needs_conversion' = NeedsConversion(SampleValues(rows, header, percent_col))
    /\ idx' = header + 1
    /\ pc' = IF header + 1 > Len(rows) THEN "return" ELSE "scan"
    /\ equity_section' = FALSE
    /\ holdings' = <<>>
    /\ seen_companies' = {}

BeginScanAt(rows, header) ==
    /\ header # 0
    /\ ~ColumnMissing(rows[header])
    /\ BeginScan(rows, header, FindCompanyCol(rows[header]), FindPercentCol(rows[header]))

\* lines 273, 101-163: the sheet is read, header row and columns are found,
\* the format is detected and the extraction loop starts behind the header
StartScan ==
    /\ pc = "sheets"
    /\ workbook[sheet_i].readable
    /\ BeginScanAt(workbook[sheet_i].rows, FindHeaderRow(workbook[sheet_i].rows))
    /\ UNCHANGED <<filename, month, year, workbook, sheet_i, file_holdings, result,
                   snapshot, normVars>>

\* the loop's variables as ScanStep takes them
ScanState == [equity_section |-> equity_section, holdings |-> holdings,
              seen_companies |-> seen_companies, stop |-> FALSE]

\* ScanTo that also leaves the loop once the list has MIN_HOLDINGS holdings
ScanTo_early(st) ==
    /\ equity_section' = st.equity_section
    /\ holdings' = st.holdings
    /\ seen_companies' = st.seen_companies
    /\ idx' = IF st.stop THEN idx ELSE idx + 1
    /\ pc' = IF st.stop \/ idx = Len(df) \/ Len(st.holdings) >= MIN_HOLDINGS
             THEN "return" ELSE "scan"

\* the loop's variables after the row at idx; the loop is left at the break,
\* where idx stays at the row that ended it, or behind the last row
ScanTo(st) ==
    /\ equity_section' = st.equity_section
    /\ holdings' = st.holdings
    /\ seen_companies' = st.seen_companies
    /\ idx' = IF st.stop THEN idx ELSE idx + 1
    /\ pc' = IF st.stop \/ idx = Len(df) THEN "return" ELSE "scan"

\* lines 165-245: the loop body for the row at idx
ScanRow ==
    /\ pc = "scan"
    /\ ScanTo(ScanStep(ScanState, df[idx], company_col_idx, percent_col_idx,
                       needs_conversion))
    /\ UNCHANGED <<filename, month, year, workbook, sheet_i, df, header_row_idx,
                   company_col_idx, percent_col_idx, needs_conversion, file_holdings,
                   result, snapshot, normVars>>

\* lines 247, 280: fewer than 5 holdings, the sheet gives no result
SheetRejected ==
    /\ pc = "return"
    /\ ~Accepted(holdings)
    /\ NextSheet
    /\ UNCHANGED sheetVars

\* The JSON object of lines 296-303 (extractedAt, the time of the run, left out)
Snapshot(sorted) ==
    [fundName |-> "Mirae Asset Large & Midcap Fund", month |-> month, year |-> year,
     holdingsCount |-> Len(sorted), holdings |-> sorted]

\* lines 247, 280-283, 292-316: the sheet is accepted, the loop over the
\* sheets is left, the holdings are sorted and the snapshot is written
SheetAccepted ==
    /\ pc = "return"
    /\ Accepted(holdings)
    /\ file_holdings' = <<SortDesc(holdings)>>
    /\ snapshot' = <<Snapshot(SortDesc(holdings))>>
    /\ result' = "True"
    /\ pc' = "done"
    /\ UNCHANGED <<filename, month, year, workbook, sheet_i, sheetVars, normVars>>

\* lines 308-309, 318-322: the sheet is accepted and sorted, but open() or
\* json.dump raises: no file, the outer except returns False
SaveRaises ==
    /\ pc = "return"
    /\ Accepted(holdings)
    /\ file_holdings' = <<SortDesc(holdings)>>
    /\ result' = "False"
    /\ pc' = "done"
    /\ UNCHANGED <<filename, month, year, workbook, sheet_i, sheetVars, snapshot, normVars>>

Next ==
    \/ MetadataUnresolved
    \/ OpenWorkbook
    \/ OpenWorkbookRaises
    \/ ReadSheetRaises
    \/ SheetEmpty
    \/ HeaderNotFound
    \/ ColumnNotFound
    \/ StartScan
    \/ ScanRow
    \/ SheetRejected
    \/ SheetAccepted
    \/ SaveRaises

Spec == Init /\ [][Next]_vars

(***************************************************************************)
(* normalize_company_name applied to a name, and to its own result         *)
(***************************************************************************)
n_abc == <<"A", "B", "C">>
n_abc_ltd_dot == <<"A", "B", "C", " ", "L", "t", "d", ".">>
k_Ltd == <<"L", "t", "d">>
k_Ltd_dot == <<"L", "t", "d", ".">>
k_Limited == <<"L", "i", "m", "i", "t", "e", "d">>
k_Pvt == <<"P", "v", "t">>
k_Pvt_dot == <<"P", "v", "t", ".">>
k_Private == <<"P", "r", "i", "v", "a", "t", "e">>
k_paren == <<"(", "D", "V", "R", ")">>
k_A == <<"A", "*", "*">>
k_B == <<"B", "*", "*">>
k_ltd_lc == <<"l", "t", "d">>

\* what may follow the base of a name: suffixes, annotations, a parenthetical
Tokens == {k_Ltd, k_Ltd_dot, k_Limited, k_Pvt, k_Pvt_dot, k_Private, k_paren,
           k_A, k_B, k_ltd_lc}

MaxTail == 2

\* `ABC` followed by at most n tokens, each behind one space
RECURSIVE Tails(_)
Tails(n) ==
    IF n = 0 THEN {n_abc}
    ELSE Tails(n - 1) \cup
         {t \o <<" ">> \o k : t \in {u \in Tails(n - 1) : Len(u) >= 4 * n - 1}, k \in Tokens}

Names == Tails(MaxTail)

InitNormalize ==
    /\ filename = f_jan2025
    /\ pc = "norm"
    /\ month = "None"
    /\ year = 0
    /\ workbook = <<>>
    /\ sheet_i = 0
    /\ NoSheet
    /\ file_holdings = <<>>
    /\ result = "None"
    /\ snapshot = <<>>
    /\ name \in Names
    /\ once = <<>>
    /\ twice = <<>>

\* normalized_name = normalize_company_name(company), line 219
NormalizeOnce ==
    /\ pc = "norm"
    /\ once' = normalize_company_name(name)
    /\ pc' = "normalized"
    /\ UNCHANGED <<filename, month, year, workbook, sheet_i, sheetVars, file_holdings,
                   result, snapshot, name, twice>>

\* the function applied to a name it returned
NormalizeTwice ==
    /\ pc = "normalized"
    /\ once # None
    /\ twice' = normalize_company_name(once)
    /\ pc' = "renormalized"
    /\ UNCHANGED <<filename, month, year, workbook, sheet_i, sheetVars, file_holdings,
                   result, snapshot, name, once>>

NextNormalize == NormalizeOnce \/ NormalizeTwice

SpecNormalize == InitNormalize /\ [][NextNormalize]_vars

\* the six suffix variants of `ABC`
SuffixVariants == {
    n_abc \o <<" ">> \o k_Limited,
    n_abc \o <<" ">> \o k_Pvt \o <<" ">> \o k_Ltd,
    n_abc \o <<" ">> \o k_Pvt_dot \o <<" ">> \o k_Ltd_dot,
    n_abc \o <<" ">> \o k_Private \o <<" ">> \o k_Limited,
    n_abc \o <<" ">> \o k_Ltd,
    n_abc \o <<" ">> \o k_Ltd_dot }

\* C9: normalize_company_name is idempotent on every name it returns:
\* normalizing a returned name again gives the same name, also for names
\* with several trailing `X**` annotations and for names whose annotation or
\* suffix is at the end only once a parenthetical is removed.
C9_Idempotent == pc = "renormalized" => twice = once

\* C10: each of the six suffix variants of `ABC` is normalized to `ABC Ltd.`.
C10_SuffixVariantsCanonical ==
    (pc # "norm" /\ name \in SuffixVariants) => once = n_abc_ltd_dot

(***************************************************************************)
(* Properties of process_excel_file and find_holdings_in_dataframe         *)
(***************************************************************************)
\* the same holdings, each as often, in any order
SameHoldings(a, b) ==
    /\ Len(a) = Len(b)
    /\ \A i \in DOMAIN a :
          Cardinality({j \in DOMAIN a : a[j] = a[i]})
              = Cardinality({j \in DOMAIN b : b[j] = a[i]})

\* find_holdings_in_dataframe returns a list for the sheet
SheetAccepts(sheet) == sheet.readable /\ Len(FindHoldings(sheet.rows)) >= 5

\* the extraction loop over df is over: behind the last row, or at a row
\* without 'equity' that holds 'total', met in the equity section with a holding
ScanAtEnd(row_str) ==
    /\ ~Contains(row_str, kw_equity)
    /\ Contains(row_str, kw_total)
    /\ equity_section
    /\ Len(holdings) > 0

ScanComplete ==
    \/ idx = Len(df) + 1
    \/ idx \in DOMAIN df /\ ScanAtEnd(RowStr(df[idx]))

NonIncreasing(hs) ==
    \A i \in 1..(Len(hs) - 1) : hs[i].percentOfNAV >= hs[i + 1].percentOfNAV

\* C1: find_holdings_in_dataframe accepts a sheet exactly when the list has
\* at least 5 holdings at the return, a merged duplicate counted once: with
\* 4 the caller gets no result (no holdings kept, no snapshot, the next sheet
\* or failure), with 5 or more it gets the holdings of the list.
C1_AcceptedFromFiveHoldings ==
    [][pc = "return" =>
          IF Len(holdings) >= 5
          THEN /\ file_holdings' # <<>>
               /\ SameHoldings(file_holdings'[1], holdings)
          ELSE /\ file_holdings' = <<>>
               /\ snapshot' = <<>>
               /\ pc' \in {"sheets", "done"}
               /\ pc' = "done" => result' = "False"]_vars

\* a sheet accepted with exactly 5 holdings, one of them merged from two rows
C1_Witness ==
    /\ pc = "done"
    /\ file_holdings # <<>>
    /\ Len(holdings) = 5
    /\ \E i \in DOMAIN holdings : /\ Lower(holdings[i].company) = Lower(t_tata_dot)
                                  /\ holdings[i].percentOfNAV = Dec(350, 2)

\* C2: the sheets are tried in their order and the holdings kept are those of
\* the first sheet that is accepted: every sheet before it is not accepted,
\* the run is over with that sheet the last one read, and the holdings kept
\* are the holdings of that sheet alone.
C2_FirstAcceptedSheetKept ==
    file_holdings # <<>> =>
        /\ pc = "done"
        /\ SheetAccepts(workbook[sheet_i])
        /\ \A j \in 1..(sheet_i - 1) : ~SheetAccepts(workbook[j])
        /\ df = workbook[sheet_i].rows
        /\ SameHoldings(file_holdings[1], FindHoldings(workbook[sheet_i].rows))

\* the second of three sheets is accepted after a first sheet that left
\* holdings behind, and an acceptable third sheet is not read
C2_Witness ==
    /\ pc = "done"
    /\ file_holdings # <<>>
    /\ Len(workbook) = 3
    /\ sheet_i = 2
    /\ workbook[1] = Readable(FourHoldings)
    /\ workbook[3] = Readable(SixHoldings)

\* C3: when no sheet is accepted the run fails and writes no snapshot; a
\* snapshot is there only after a run that succeeded on a sheet whose
\* extraction loop was over, with the 5 or more holdings of that sheet.
C3_SnapshotOnlyFromAcceptedSheet ==
    /\ (pc = "done" /\ \A j \in DOMAIN workbook : ~SheetAccepts(workbook[j]))
          => (result = "False" /\ snapshot = <<>>)
    /\ snapshot # <<>> =>
          /\ pc = "done"
          /\ result = "True"
          /\ ScanComplete
          /\ Len(holdings) >= 5
          /\ snapshot[1].holdingsCount = Len(holdings)
          /\ Len(snapshot[1].holdings) = Len(holdings)

\* a run that fails after a sheet that raises, an empty sheet and a rejected one
C3_Witness ==
    /\ pc = "done"
    /\ result = "False"
    /\ snapshot = <<>>
    /\ workbook = <<Unreadable, Readable(<<>>), Readable(FourHoldings)>>
    /\ sheet_i = 3

\* C4: the holdings of the snapshot are in non-increasing order of
\* percentOfNAV and are the holdings of the accepted sheet, each once.
C4_SnapshotRanked ==
    snapshot # <<>> =>
        /\ NonIncreasing(snapshot[1].holdings)
        /\ SameHoldings(snapshot[1].holdings, holdings)

\* a snapshot whose order is not the order of the rows, with two equal values
C4_Witness ==
    /\ snapshot # <<>>
    /\ snapshot[1].holdings # holdings
    /\ \E i \in 1..(Len(holdings) - 1) :
          snapshot[1].holdings[i].percentOfNAV = snapshot[1].holdings[i + 1].percentOfNAV

\* no two holdings of hs have the same company, letter case ignored
DistinctCompanies(hs) ==
    \A i, j \in DOMAIN hs :
        i < j => Lower(hs[i].company) # Lower(hs[j].company)

\* C5: after any number of rows the list holds no two holdings whose company
\* is the same up to letter case; the same is true of the holdings kept and
\* of the holdings of the snapshot.
C5_NoDuplicateCompany ==
    /\ DistinctCompanies(holdings)
    /\ file_holdings # <<>> => DistinctCompanies(file_holdings[1])
    /\ snapshot # <<>> => DistinctCompanies(snapshot[1].holdings)

\* the loop is behind two rows that name one company in different letter case
C5_Witness ==
    /\ pc \in {"scan", "return"}
    /\ Len(holdings) = 1
    /\ \E i, j \in (header_row_idx + 1)..(idx - 1) :
          /\ df[i][1] = Text(t_tata)
          /\ df[j][1] = Text(t_TATA)
          /\ InRange(df[i][3].v)
          /\ InRange(df[j][3].v)

\* the percentage of the row at idx: the cell as a number, times 100 in a
\* sheet of fractions; ok is FALSE for a cell that is no number
RowPercent == ParsePercent(CellAt(df[idx], percent_col_idx), needs_conversion)

\* the name of the row at idx as the duplicate check compares it
RowCompanyLower ==
    Lower(normalize_company_name(Strip(CellStr(CellAt(df[idx], company_col_idx)))))

\* the row at idx is an extracted row: in the equity section, neither section
\* nor end row, with a candidate holding
RowExtracted ==
    /\ equity_section
    /\ ~Contains(RowStr(df[idx]), kw_equity)
    /\ ~Contains(RowStr(df[idx]), kw_total)
    /\ RowCandidate(df[idx], company_col_idx, percent_col_idx, needs_conversion).ok

\* the one step of the merge: the value of the row is added to the holding at
\* m, the sum is rounded to 2 decimals, nothing else changes
MergedAt(m, pct_val) ==
    /\ Lower(holdings[m].company) = RowCompanyLower
    /\ holdings' = [holdings EXCEPT ![m].percentOfNAV = Round2(@ + pct_val)]

\* the holdings of `Tata Motors Ltd.` alone, at the value v
OnlyTata(v) ==
    <<[company |-> t_tata_dot, percentOfNAV |-> v, shares |-> None, value |-> None]>>

\* C6: an extracted row whose normalized name is in the list, letter case
\* ignored, adds its value to that holding and the sum is rounded to 2
\* decimals, with no range check on the sum and no new holding; rows of
\* 2.00 and 1.50 for `Tata Motors Ltd.` leave one holding of 3.50.
C6_MergeAddsAndRounds ==
    /\ [][(pc = "scan" /\ RowExtracted
              /\ \E m \in DOMAIN holdings : Lower(holdings[m].company) = RowCompanyLower)
          => \E m \in DOMAIN holdings : MergedAt(m, RowPercent.v)]_vars
    /\ []((/\ df = <<HeaderRow, BannerRow, Data(t_tata, Dec(200, 2)), Data(t_TATA, Dec(150, 2))>>
           /\ idx = 5)
          => holdings = OnlyTata(Dec(350, 2)))

\* a merge whose sum, 49.9 + 2.00 = 51.9, is outside the range of a row
C6_Witness ==
    /\ pc \in {"scan", "return"}
    /\ holdings = OnlyTata(Dec(519, 1))
    /\ df[idx - 1] = Data(t_tata, Dec(200, 2))

\* C7: a row changes the holdings only if its value, after the scaling of
\* the sheet, is strictly between 0.01 and 50: rows of 0.005, 0.01, 50 and
\* 55 change neither the list nor the set of seen names, also when the name
\* is that of a holding; extracted rows of 0.011 and 49.9 change the list.
C7_RowRangeStrict ==
    [][pc = "scan" =>
          /\ (holdings' # holdings \/ seen_companies' # seen_companies)
                => (RowPercent.ok /\ Dec(1, 2) < RowPercent.v /\ RowPercent.v < Dec(50, 0))
          /\ (RowPercent.ok /\ RowPercent.v \in {Dec(5, 3), Dec(1, 2), Dec(50, 0), Dec(55, 0)})
                => (holdings' = holdings /\ seen_companies' = seen_companies)
          /\ (/\ equity_section
              /\ CellAt(df[idx], company_col_idx).t = "Text"
              /\ CellAt(df[idx], company_col_idx).s \in {t_tata_dot, t_abc}
              /\ CellAt(df[idx], percent_col_idx).t = "Number"
              /\ RowPercent.v \in {Dec(11, 3), Dec(499, 1)})
                => holdings' # holdings]_vars

\* a row of 50 for a company that is in the list has left the list as it was
C7_Witness ==
    /\ pc = "return"
    /\ ~needs_conversion
    /\ df = <<HeaderRow, BannerRow, Data(t_tata, Dec(200, 2)), Data(t_tata, Dec(50, 0))>>
    /\ idx = 5
    /\ holdings = OnlyTata(Dec(200, 2))

\* C8: a sheet is read as fractions exactly when the detector collected at
\* least one sample and every sample is below 1.0; this is decided before
\* the first row is extracted and is the same for every row of the sheet:
\* a new holding gets the value of its row times 100 in a sheet of fractions
\* and the value as it is otherwise, so 0.0527 gives 5.27 and 6.44 gives 6.44.
C8_FormatDecidedOncePerSheet ==
    /\ [](pc \in {"scan", "return"} =>
            needs_conversion =
                (/\ Len(SampleValues(df, header_row_idx, percent_col_idx)) >= 1
                 /\ \A i \in DOMAIN SampleValues(df, header_row_idx, percent_col_idx) :
                       SampleValues(df, header_row_idx, percent_col_idx)[i] < Dec(1, 0)))
    /\ [][pc = "scan" =>
            /\ needs_conversion' = needs_conversion
            /\ Len(holdings') > Len(holdings) =>
                  /\ holdings'[Len(holdings')].percentOfNAV
                        = Round2(ParsePercent(CellAt(df[idx], percent_col_idx), FALSE).v
                                    * (IF needs_conversion THEN 100 ELSE 1))
                  /\ (needs_conversion /\ CellAt(df[idx], percent_col_idx).v = Dec(527, 4))
                        => holdings'[Len(holdings')].percentOfNAV = Dec(527, 2)
                  /\ (~needs_conversion /\ CellAt(df[idx], percent_col_idx).v = Dec(644, 2))
                        => holdings'[Len(holdings')].percentOfNAV = Dec(644, 2)]_vars

\* a sheet of fractions in which 0.0527 became a holding of 5.27
C8_Witness ==
    /\ pc \in {"scan", "return"}
    /\ needs_conversion
    /\ df[idx - 1] = Data(t_abc, Dec(527, 4))
    /\ holdings # <<>>
    /\ holdings[Len(holdings)].company = t_abc \o <<".">>
    /\ holdings[Len(holdings)].percentOfNAV = Dec(527, 2)

\* the parenthetical of the names, as it is inserted behind a space
k_paren_segment == <<" ">> \o k_paren

\* where the first inserted parenthetical of s starts; 0 if there is none
SegmentAt(s) ==
    MinOrZero({i \in 1..(Len(s) - Len(k_paren_segment) + 1) :
                 SubSeq(s, i, i + Len(k_paren_segment) - 1) = k_paren_segment})

\* s with the segment at position p taken out again
WithoutSegmentAt(s, p) ==
    SubSeq(s, 1, p - 1) \o SubSeq(s, p + Len(k_paren_segment), Len(s))

\* C11: a parenthetical segment is transparent: a name with a segment
\* inserted in the middle or at the end is normalized to the same result as
\* the name without that segment.
C11_ParentheticalTransparent ==
    (pc # "norm" /\ SegmentAt(name) # 0)
        => once = normalize_company_name(WithoutSegmentAt(name, SegmentAt(name)))

\* C12: the header row of a sheet is the topmost row whose text holds an
\* instrument signal and a percent signal, letter case ignored: no row above
\* it has both signals, rows below it are not used even if they have both,
\* and no header is found only if no row has both.
C12_TopmostHeaderRow ==
    df # <<>> =>
        IF header_row_idx = 0
        THEN \A i \in DOMAIN df : ~IsHeaderRow(df[i])
        ELSE /\ header_row_idx \in DOMAIN df
             /\ IsHeaderRow(df[header_row_idx])
             /\ \A i \in 1..(header_row_idx - 1) : ~IsHeaderRow(df[i])
             /\ pc = "scan" => idx > header_row_idx

\* a header in capitals is used, under a title and above another header row
C12_Witness ==
    /\ pc = "scan"
    /\ header_row_idx = 2
    /\ df[1] = TitleRow
    /\ df[2] = UpperHeaderRow
    /\ df[3] = HeaderRow
    /\ idx = 4

\* the cell holds one of the percent signals
HasPercentSignal(cell_str) ==
    \/ Contains(cell_str, kw_pct_to_net)
    \/ Contains(cell_str, kw_pct_to_nav)
    \/ Contains(cell_str, kw_pct_of_nav)

\* the cell holds the instrument signal of its row: 'name of the instrument',
\* or the bare word 'instrument' in a row without that phrase
HasInstrumentSignal(cell_str, row_str) ==
    \/ Contains(cell_str, kw_name_of_the_instrument)
    \/ /\ ~Contains(row_str, kw_name_of_the_instrument)
       /\ Contains(cell_str, kw_instrument)

\* C13: for every row selected as the header, the company column is the
\* column of the cell with the instrument signal ('name of the instrument',
\* or failing that 'instrument') and the percent column is the column of the
\* cell with a percent signal ('% to net', '% to nav' or '% of nav'), so a
\* header labelled only 'Instrument' or only '% of NAV' is resolved.
C13_ColumnsResolvedBySignals ==
    (df # <<>> /\ header_row_idx # 0) =>
        /\ company_col_idx \in DOMAIN df[header_row_idx]
        /\ notna(df[header_row_idx][company_col_idx])
        /\ HasInstrumentSignal(HeaderCellStr(df[header_row_idx][company_col_idx]),
                               RowStr(df[header_row_idx]))
        /\ percent_col_idx \in DOMAIN df[header_row_idx]
        /\ notna(df[header_row_idx][percent_col_idx])
        /\ HasPercentSignal(HeaderCellStr(df[header_row_idx][percent_col_idx]))

\* no row of the sheet has the header signals, or the header row lacks one
\* of the two columns
WithoutHeaderOrColumn(rows) ==
    \/ \A i \in DOMAIN rows : ~IsHeaderRow(rows[i])
    \/ ColumnMissing(rows[FindHeaderRow(rows)])

\* C14: a sheet without a header row, or with a header row in which one of
\* the two columns is not resolved, is rejected in one step that raises
\* nothing and extracts no holding: nothing is kept or written, and the
\* caller goes on to the next sheet, or fails behind the last one.
C14_RejectedSheetGoesToNext ==
    [][(/\ pc = "sheets"
        /\ workbook[sheet_i].readable
        /\ workbook[sheet_i].rows # <<>>
        /\ WithoutHeaderOrColumn(workbook[sheet_i].rows))
       => /\ df' = workbook[sheet_i].rows
          /\ holdings' = <<>>
          /\ file_holdings' = <<>>
          /\ snapshot' = <<>>
          /\ IF sheet_i < Len(workbook)
             THEN pc' = "sheets" /\ sheet_i' = sheet_i + 1 /\ result' = "None"
             ELSE pc' = "done" /\ result' = "False"]_vars

\* the loop is at the second sheet after a first sheet without header row,
\* which has rows that would be valid data
C14_Witness ==
    /\ pc = "sheets"
    /\ sheet_i = 2
    /\ df = workbook[1].rows
    /\ df = <<Data(t_cipla, Dec(120, 2)), BannerRow, Data(t_wipro, Dec(50, 2)),
              Data(t_titan, Dec(45, 1))>>
    /\ header_row_idx = 0
    /\ holdings = <<>>
    /\ result = "None"

\* C15: in the equity section, a row whose text holds 'total', reached with
\* at least one holding in the list, ends the scan: the loop is left and the
\* row adds nothing, also when the text holds 'equity' as well, as in
\* `Total Equity`.
C15_TotalRowEndsScan ==
    [][(/\ pc = "scan"
        /\ equity_section
        /\ Contains(RowStr(df[idx]), kw_total)
        /\ Len(holdings) > 0)
       => (pc' = "return" /\ holdings' = holdings)]_vars

\* a holding as it is stored
Holding(company, v) ==
    [company |-> company, percentOfNAV |-> v, shares |-> None, value |-> None]

\* C16: a row that holds 'total', reached in the equity section while the
\* list is empty, does not end the scan: the loop goes on with the next row,
\* still in the equity section, and valid rows below are extracted, as the
\* row of Cipla behind `Total` is.
C16_TotalWithoutHoldingGoesOn ==
    /\ [][(/\ pc = "scan"
           /\ equity_section
           /\ Contains(RowStr(df[idx]), kw_total)
           /\ Len(holdings) = 0)
          => /\ equity_section'
             /\ holdings' = <<>>
             /\ idx' = idx + 1
             /\ pc' = IF idx < Len(df) THEN "scan" ELSE "return"]_vars
    /\ []((/\ df = <<HeaderRow, BannerRow, TotalRow, Data(t_cipla, Dec(120, 2))>>
           /\ idx = 5)
          => holdings = <<Holding(t_cipla, Dec(120, 2))>>)

\* a holding extracted from the row behind a `Total` row that was met with
\* an empty list
C16_Witness ==
    /\ pc = "return"
    /\ df = <<HeaderRow, BannerRow, TotalRow, Data(t_cipla, Dec(120, 2))>>
    /\ idx = 5
    /\ equity_section
    /\ holdings = <<Holding(t_cipla, Dec(120, 2))>>

\* C17: no holding comes from a row in front of the equity section: as long
\* as no row scanned behind the header holds 'equity' the list is empty, also
\* when such a row has a valid company and percentage; a row that holds
\* 'equity' is skipped as a banner and changes neither the list nor the seen
\* names; a sheet without such a row ends with an empty list.
C17_NothingBeforeEquitySection ==
    /\ []((/\ pc \in {"scan", "return"}
           /\ \A i \in (header_row_idx + 1)..(idx - 1) :
                 ~Contains(RowStr(df[i]), kw_equity))
          => (holdings = <<>> /\ seen_companies = {} /\ ~equity_section))
    /\ [][(pc = "scan" /\ (~equity_section \/ Contains(RowStr(df[idx]), kw_equity)))
          => (holdings' = holdings /\ seen_companies' = seen_companies)]_vars

\* the loop is behind a valid row of Cipla that stands in front of the banner
C17_Witness ==
    /\ pc = "scan"
    /\ df = <<HeaderRow, Data(t_cipla, Dec(120, 2)), BannerRow, Data(t_cipla, Dec(120, 2))>>
    /\ idx = 3
    /\ ~equity_section
    /\ holdings = <<>>

\* C18: a file whose name gives no month or no year fails before the
\* workbook is opened: the run is over with failure, no sheet was read, no
\* row was scanned, nothing is kept and no snapshot is written; a name with
\* a month but no year, or with a year but no month, gives neither.
C18_UnresolvedMetadataFailsFirst ==
    /\ (pc # "start" /\ (month = "None" \/ year = 0)) =>
          /\ pc = "done"
          /\ result = "False"
          /\ workbook = <<>>
          /\ sheet_i = 0
          /\ df = <<>>
          /\ idx = 0
          /\ holdings = <<>>
          /\ file_holdings = <<>>
          /\ snapshot = <<>>
    /\ (pc # "start" /\ filename \in {f_march, f_nomonth}) =>
          (month = "None" /\ year = 0)

\* the run for a file name with a month and no year is over with failure
C18_Witness ==
    /\ pc = "done"
    /\ filename = f_march
    /\ month = "None"
    /\ result = "False"
    /\ workbook = <<>>

n_hdfc_bank == <<"H", "D", "F", "C", " ", "B", "a", "n", "k", " ", "L", "t", "d", ".">>
n_lupin == <<"L", "u", "p", "i", "n", " ", "L", "t", "d", ".">>
n_reliance == <<"R", "e", "l", "i", "a", "n", "c", "e", " ", "I", "n", "d", "u", "s", "t", "r", "i", "e", "s", " ", "L", "t", "d", ".">>

\* The run over the workbook that holds the scenario sheet alone is over
\* with the header at row index 7, the company column at index 1 and the
\* percent column at index 4 (counted from 0), and exactly 5 holdings in
\* non-increasing order, the first one `first` and the one of HDFC Bank at 5.90
ScenarioResult(first) ==
    (pc = "done" /\ workbook = <<Readable(ScenarioSheet)>>) =>
        /\ header_row_idx = 8
        /\ company_col_idx = 2
        /\ percent_col_idx = 5
        /\ file_holdings # <<>>
        /\ Len(file_holdings[1]) = 5
        /\ NonIncreasing(file_holdings[1])
        /\ file_holdings[1][1] = first
        /\ \E i \in DOMAIN file_holdings[1] :
              file_holdings[1][i] = Holding(n_hdfc_bank, Dec(590, 2))

\* C19: for the scenario sheet (header at row index 7, company column 1,
\* percent column 4, banner, Reliance Industries Ltd 8.52, ICICI Bank Limited
\* 6.10, HDFC Bank (Demat) Ltd. 5.90, two more valid rows, Total) the run
\* gives exactly 5 holdings in descending order, with `HDFC Bank Ltd.` at
\* 5.90 and, first, at 8.52, the holding of Reliance under its normalized
\* name `Reliance Industries Ltd.`.
C19_ScenarioNormalized == ScenarioResult(Holding(n_reliance, Dec(852, 2)))

\* C19 as it is stated: the first holding is named `Reliance Industries Ltd`,
\* as the row is written
C19_ScenarioAsStated == ScenarioResult(Holding(t_reliance, Dec(852, 2)))

\* the run over the scenario sheet has written its snapshot
C19_Witness ==
    /\ pc = "done"
    /\ workbook = <<Readable(ScenarioSheet)>>
    /\ result = "True"
    /\ snapshot # <<>>
    /\ snapshot[1].holdingsCount = 5

\* where the holding h stands in hs
PositionIn(hs, h) == CHOOSE i \in DOMAIN hs : hs[i] = h

\* C20: the ranking is stable: two holdings of the snapshot with the same
\* percentOfNAV stand in the order in which they were first accepted, which
\* is their order in the list of the accepted sheet.
C20_RankingStable ==
    snapshot # <<>> =>
        \A i, j \in DOMAIN snapshot[1].holdings :
            (/\ i < j
             /\ snapshot[1].holdings[i].percentOfNAV = snapshot[1].holdings[j].percentOfNAV)
            => PositionIn(holdings, snapshot[1].holdings[i])
                   < PositionIn(holdings, snapshot[1].holdings[j])

\* a snapshot in which the first and the third holding of the list, both at
\* 2.00, stand side by side behind larger ones
C20_Witness ==
    /\ snapshot # <<>>
    /\ Len(holdings) >= 5
    /\ holdings[1] = Holding(t_tata_dot, Dec(200, 2))
    /\ holdings[3].percentOfNAV = Dec(200, 2)
    /\ holdings[2].percentOfNAV > Dec(200, 2)
    /\ \E i \in 2..(Len(holdings) - 1) :
          /\ snapshot[1].holdings[i] = holdings[1]
          /\ snapshot[1].holdings[i + 1] = holdings[3]

\* the holdings hs with one more holding at the end
GrownAtEnd(hs, grown) ==
    /\ Len(grown) = Len(hs) + 1
    /\ SubSeq(grown, 1, Len(hs)) = hs

\* merged is hs but for the percentOfNAV of the holding at m
OnlyValueAt(hs, merged, m) ==
    /\ Len(merged) = Len(hs)
    /\ \A i \in DOMAIN hs :
          /\ merged[i].company = hs[i].company
          /\ merged[i].shares = hs[i].shares
          /\ merged[i].value = hs[i].value
          /\ i # m => merged[i] = hs[i]

\* C21: a merge changes only the percentOfNAV of the one holding whose name
\* matches the row: the length of the list, the order of the holdings, every
\* company string and the value of every other holding stay as they were;
\* a row of the scan leaves the list as it is, merges, or appends one holding
\* at the end.
C21_MergeFrame ==
    [][pc = "scan" =>
          /\ \/ holdings' = holdings
             \/ GrownAtEnd(holdings, holdings')
             \/ \E m \in DOMAIN holdings :
                   /\ Lower(holdings[m].company) = RowCompanyLower
                   /\ OnlyValueAt(holdings, holdings', m)
          /\ (/\ RowExtracted
              /\ \E m \in DOMAIN holdings : Lower(holdings[m].company) = RowCompanyLower)
                => \E m \in DOMAIN holdings :
                      /\ Lower(holdings[m].company) = RowCompanyLower
                      /\ \A k \in DOMAIN holdings :
                            Lower(holdings[k].company) = RowCompanyLower => k = m
                      /\ OnlyValueAt(holdings, holdings', m)]_vars

\* the row `TATA MOTORS LIMITED` was merged into the first of four holdings
C21_Witness ==
    /\ pc = "scan"
    /\ df = Template
    /\ idx = 8
    /\ Len(holdings) = 4
    /\ holdings[1] = Holding(t_tata_dot, Dec(350, 2))
    /\ holdings[2] = Holding(n_abc_ltd_dot, Dec(644, 2))

\* C22: a holding is created with a stored percentOfNAV, the value rounded
\* to 2 decimals, strictly between 0.01 and 50: no row appends a holding
\* whose stored percentOfNAV is 0.01 or 50.00.
C22_CreatedInRangeAfterRounding ==
    [][(pc = "scan" /\ GrownAtEnd(holdings, holdings'))
          => /\ Dec(1, 2) < holdings'[Len(holdings')].percentOfNAV
             /\ holdings'[Len(holdings')].percentOfNAV < Dec(50, 0)]_vars

\* the first MAX_SAMPLES positive numbers of the percent column in the 30 rows
\* behind the header row (fewer rows when the sheet ends)
ThirtyRowSamples ==
    CollectSamples(df, percent_col_idx, header_row_idx + 1,
                   Min(header_row_idx + 30, Len(df)), <<>>)

\* C23: the format is decided from the 30 rows that follow the header row,
\* up to the 10th positive number among them: a positive value in the 30th
\* row behind the header is a sample when fewer than 10 samples precede it,
\* and the sheet is read as fractions exactly when there is a sample and
\* every sample of these rows is below 1.
C23_WindowOfThirtyRows ==
    pc \in {"scan", "return"} =>
        needs_conversion =
            (/\ ThirtyRowSamples # <<>>
             /\ \A i \in DOMAIN ThirtyRowSamples : ThirtyRowSamples[i] < Dec(1, 0))

\* the percent cell as a number, a '%' in a text cell stripped first
StrippedFloat(cell) == ParsePercent(cell, FALSE)

\* the samples of the rows from..to when the detector strips the '%' of a
\* text cell as the extraction does
RECURSIVE StrippedSamples(_, _, _)
StrippedSamples(from, to, sample_values) ==
    IF from > to \/ Len(sample_values) >= MAX_SAMPLES THEN sample_values
    ELSE StrippedSamples(from + 1, to,
            IF /\ notna(CellAt(df[from], percent_col_idx))
               /\ StrippedFloat(CellAt(df[from], percent_col_idx)).ok
               /\ StrippedFloat(CellAt(df[from], percent_col_idx)).v > 0
            THEN Append(sample_values, StrippedFloat(CellAt(df[from], percent_col_idx)).v)
            ELSE sample_values)

\* the samples of the rows the detector looks at, text cells with '%' included
SamplesWithPercentSign ==
    StrippedSamples(header_row_idx + 1,
                    Min(header_row_idx + SAMPLE_WINDOW - 1, Len(df)), <<>>)

\* C24: a text cell that ends in '%' is read the same way by the format
\* detector and by the extraction, the '%' stripped and the rest parsed: the
\* cell '5.27%' in the sampled rows is the sample 5.27, so its sheet is read
\* as percentages, and the row of that cell is extracted at 5.27.
C24_PercentSignSampled ==
    /\ pc \in {"scan", "return"} =>
          needs_conversion =
              (/\ SamplesWithPercentSign # <<>>
               /\ \A i \in DOMAIN SamplesWithPercentSign :
                     SamplesWithPercentSign[i] < Dec(1, 0))
    /\ (/\ pc = "return"
        /\ df = <<HeaderRow, BannerRow, DataText(t_cipla, t_pct_527),
                  Data(t_titan, Dec(3, 1))>>)
          => holdings = <<Holding(t_cipla, Dec(527, 2)), Holding(t_titan, Dec(3, 1))>>

\* the row at idx has a company and a percentage that make a holding: both
\* cells there, a name of 3 characters or more without a blocklist word, a
\* percentage in the range, a name left after normalization
RowValid == RowCandidate(df[idx], company_col_idx, percent_col_idx, needs_conversion).ok

\* C25: in the equity section every row at which the scan does not end goes
\* to record extraction, whatever keywords its text holds: a row with a valid
\* company and percentage changes the holdings even if another cell of the
\* row holds the text 'equity'; only rows in front of the equity section,
\* the first banner included, are passed over without extraction.
C25_EquitySectionRowsExtracted ==
    [][(/\ pc = "scan"
        /\ equity_section
        /\ RowValid
        /\ ~(Contains(RowStr(df[idx]), kw_total) /\ Len(holdings) > 0))
          => holdings' # holdings]_vars

\* the row at idx gets as far as the extraction of company and percentage:
\* in the equity section, neither a row with 'equity' nor the row that ends
\* the scan
RowReachesExtraction ==
    /\ equity_section
    /\ ~Contains(RowStr(df[idx]), kw_equity)
    /\ ~(Contains(RowStr(df[idx]), kw_total) /\ Len(holdings) > 0)

\* the row at idx fails: no company, no percentage, a company of fewer than
\* 3 characters after trimming, or a percentage that is no number
RowFailure ==
    \/ ~notna(CellAt(df[idx], company_col_idx))
    \/ ~notna(CellAt(df[idx], percent_col_idx))
    \/ Len(Strip(CellStr(CellAt(df[idx], company_col_idx)))) < 3
    \/ ~RowPercent.ok

\* rows without the row at position p
WithoutRow(rows, p) == SubSeq(rows, 1, p - 1) \o SubSeq(rows, p + 1, Len(rows))

\* the list of the extraction loop over the sheet `rows`, read with the
\* header and the columns of df and with the format decided on `rows`
ScannedHoldings(rows) ==
    ScanRows(rows, header_row_idx + 1, ScanStart, company_col_idx, percent_col_idx,
             NeedsConversion(SampleValues(rows, header_row_idx, percent_col_idx))).holdings

\* C26 as stated: a row that fails is skipped and the sheet gives the
\* holdings it gives when the failed row is left out of it.
C26_FailedRowAsIfAbsent ==
    (pc = "scan" /\ RowReachesExtraction /\ RowFailure)
        => ScannedHoldings(df) = ScannedHoldings(WithoutRow(df, idx))

\* C26: a row that fails (no company, no percentage, a company shorter than
\* 3 characters, a percentage that is no number) is skipped and the loop goes
\* on: holdings, seen names and equity section stay as they are, the loop
\* moves to the next row, and under the format decided for the sheet the
\* rows behind it give what they give when the failed row is left out.
C26_FailedRowSkipped ==
    [][(pc = "scan" /\ RowReachesExtraction /\ RowFailure)
          => /\ holdings' = holdings
             /\ seen_companies' = seen_companies
             /\ equity_section' = equity_section
             /\ idx' = idx + 1
             /\ pc' = (IF idx = Len(df) THEN "return" ELSE "scan")
             /\ ScanRows(df, idx + 1, ScanState, company_col_idx, percent_col_idx,
                         needs_conversion)
                  = ScanRows(WithoutRow(df, idx), idx, ScanState, company_col_idx,
                             percent_col_idx, needs_conversion)]_vars

\* the row with the percentage 'n/a' was skipped and the row behind it extracted
C26_Witness ==
    /\ pc = "return"
    /\ df = <<HeaderRow, BannerRow, DataText(t_cipla, t_na), Data(t_titan, Dec(3, 1))>>
    /\ idx = 5
    /\ holdings = <<Holding(t_titan, Dec(30, 0))>>

\* C27: a row whose company text holds a word of the blocklist, as a
\* substring and whatever the letter case, makes no holding, and in every
\* reachable state no company string of the holdings holds a blocklist word.
C27_NoBlocklistWordInHoldings ==
    /\ [](\A h \in DOMAIN holdings :
            LET company_lower == Lower(holdings[h].company)
            IN  \A w \in DOMAIN skip_words : ~Contains(company_lower, skip_words[w]))
    /\ [][(/\ pc = "scan"
           /\ notna(CellAt(df[idx], company_col_idx))
           /\ \E w \in DOMAIN skip_words :
                 Contains(Lower(CellStr(CellAt(df[idx], company_col_idx))), skip_words[w]))
             => (holdings' = holdings /\ seen_companies' = seen_companies)]_vars

\* the row `PLANET Ltd`, with 'plan' in capitals inside a word, was passed
\* over in the equity section and the row behind it was extracted
C27_Witness ==
    /\ pc = "return"
    /\ df = <<HeaderRow, BannerRow, Data(t_planet, Dec(120, 2)), Data(t_titan, Dec(3, 1))>>
    /\ idx = 5
    /\ holdings = <<Holding(t_titan, Dec(3, 1))>>

\* the texts of the company cells of df behind the header, trimmed
CompanyTexts ==
    {Strip(CellStr(CellAt(df[i], company_col_idx))) :
        i \in {j \in (header_row_idx + 1)..Len(df) : notna(CellAt(df[j], company_col_idx))}}

\* C28: a row whose company text normalizes to no usable name (nothing left
\* once annotation and parentheticals are removed, as for '(ABC)') is
\* skipped; every holding has a company string that is not empty, and the
\* holdings a scan ends with have the normalized form of the company text of
\* a row of the sheet.
C28_NoUsableNameSkipped ==
    /\ [](\A h \in DOMAIN holdings :
            /\ holdings[h].company # <<>>
            /\ holdings[h].company # None)
    /\ [](pc = "return" =>
            LET canonical == {normalize_company_name(c) : c \in CompanyTexts}
            IN  \A h \in DOMAIN holdings : holdings[h].company \in canonical)
    /\ [][(/\ pc = "scan"
           /\ notna(CellAt(df[idx], company_col_idx))
           /\ normalize_company_name(Strip(CellStr(CellAt(df[idx], company_col_idx))))
                 \in {None, <<>>})
             => (holdings' = holdings /\ seen_companies' = seen_companies)]_vars

\* the row `(ABC)` at 1.20 was skipped in the equity section: the sheet is
\* read as percentages and the row behind it is the only holding
C28_Witness ==
    /\ pc = "return"
    /\ df = <<HeaderRow, BannerRow, Data(t_paren_only, Dec(120, 2)), Data(t_titan, Dec(3, 1))>>
    /\ idx = 5
    /\ holdings = <<Holding(t_titan, Dec(3, 1))>>

\* the text of the row at idx holds 'debt' or 'net assets' and no 'total'
DebtOrNetAssetsRow ==
    /\ \/ Contains(RowStr(df[idx]), kw_debt)
       \/ Contains(RowStr(df[idx]), kw_net_assets)
    /\ ~Contains(RowStr(df[idx]), kw_total)

RECURSIVE TotalWeight(_)
TotalWeight(hs) ==
    IF hs = <<>> THEN 0 ELSE hs[1].percentOfNAV + TotalWeight(Tail(hs))

\* the rows of df the loop has gone through and accepted, as a new holding or
\* merged: rows below a row with 'equity', without 'equity' themselves, with
\* a candidate holding
AcceptedRows ==
    LET processed == (header_row_idx + 1)..(idx - 1)
        with_equity == {j \in processed : Contains(RowStr(df[j]), kw_equity)}
    IN  {i \in processed \ with_equity :
            /\ \E j \in with_equity : j < i
            /\ RowCandidate(df[i], company_col_idx, percent_col_idx, needs_conversion).ok}

\* the value of row i after the scaling of the sheet
ScaledValue(i) == ParsePercent(CellAt(df[i], percent_col_idx), needs_conversion).v

\* the sum of the scaled values of the rows of S
RECURSIVE SumOfRows(_)
SumOfRows(S) ==
    IF S = {} THEN 0
    ELSE ScaledValue(MinOrZero(S)) + SumOfRows(S \ {MinOrZero(S)})

\* C30: after any number of rows of the scan, when the scaled values of the
\* accepted rows have at most 2 decimals, the sum of percentOfNAV over the
\* holdings is the sum of the scaled values of the rows accepted so far,
\* whether a row made a holding or was merged into one.
C30_WeightConserved ==
    [](pc \in {"scan", "return"} =>
          LET accepted == AcceptedRows
          IN  (\A i \in accepted : ScaledValue(i) % Dec(1, 2) = 0)
                  => TotalWeight(holdings) = SumOfRows(accepted))

\* the template sheet at its total: six accepted rows, one of them merged,
\* five holdings with the sum 26.36
C30_Witness ==
    /\ pc = "return"
    /\ df = Template
    /\ idx = 9
    /\ Cardinality(AcceptedRows) = 6
    /\ Len(holdings) = 5
    /\ TotalWeight(holdings) = Dec(2636, 2)

=============================================================================
